---- MODULE Spec2Model ----
(***************************************************************************)
(* Model of the Pumpkin server core: the client connection state machine   *)
(* (pumpkin/src/client/client_packet.rs), the player runtime               *)
(* (pumpkin/src/entity/player), and the Anvil world loader                 *)
(* (pumpkin-world/src/chunk/anvil_temp).                                   *)
(*                                                                         *)
(* Each subsystem has its own specification over its own variables; the    *)
(* variables of the other subsystems stay at their initial values.         *)
(***************************************************************************)
EXTENDS Integers, Sequences, FiniteSets, TLC

VARIABLES
    \* ---- Client (one connection) ----
    cfg,               \* BASIC_CONFIG / ADVANCED_CONFIG as read by the handlers
    connection_state,  \* Client::connection_state
    closed,            \* Client::closed
    panicked,          \* the task handling the connection aborted (unwrap)
    protocol_version,  \* Client::protocol_version
    server_address,    \* Client::server_address
    gameprofile,       \* Client::gameprofile (NoProfile = None)
    encryption,        \* transport: AES/CFB8 enabled
    compression,       \* transport: compressed framing enabled
    make_player,       \* Client::make_player
    player_config,     \* Client::config is Some
    brand,             \* Client::brand is Some
    sent,              \* packets written to the client, in order
    kicks,             \* reasons passed to Client::kick, in order
    last,              \* the inbound packet handled last, with its outcome inputs
    handled,           \* number of inbound packets handled
    \* ---- Player (one player in Play) ----
    platform,                \* Player::client is ClientPlatform::Java or ::Bedrock
    chunk_queue,             \* ChunkManager::chunk_queue (chunk ids, oldest first)
    chunks_per_tick,         \* ChunkManager::chunks_per_tick
    batches_sent_since_ack,  \* ChunkManager::batches_sent_since_ack
    wait_for_keep_alive,     \* Player::wait_for_keep_alive
    keep_alive_id,           \* Player::keep_alive_id
    last_keep_alive_time,    \* Player::last_keep_alive_time (seconds)
    client_loaded,           \* Player::client_loaded
    client_loaded_timeout,   \* Player::client_loaded_timeout
    now,                     \* the clock read by Instant::now() (seconds)
    player_kick,             \* the (reason, message) the player was kicked with
    tick_out,                \* the packets sent by the latest tick, in order
    batches,                 \* history: batches sent since the latest acknowledgment
    acked,                   \* history: an acknowledgment has been handled
    desired_rate10,          \* history: the latest acknowledgment's rate, in tenths
    unloaded_ticks,          \* history: ticks since client_loaded was last set false
    \* ---- MessageCache (one player's signature cache) ----
    full_cache,              \* MessageCache::full_cache (most recent first)
    last_seen,               \* MessageCache::last_seen (most recent last)
    cache_ops,               \* number of cache operations performed
    indexed,                 \* the latest indexed_for call: inputs and output
    \* ---- World directory and its loaders ----
    session_lock,            \* <world>/session.lock exists and is writable
    level_dat,               \* level.dat is present and well-formed
    loaders,                 \* per load_world call: its result / liveness
    \* ---- Teleports of one player ----
    overflow_checks,         \* the build checks integer overflow (debug profile)
    teleport_id_count,       \* Player::teleport_id_count (AtomicI32)
    awaiting_teleport,       \* Player::awaiting_teleport
    position,                \* Entity::pos
    rotation,                \* Entity::yaw, Entity::pitch
    tp_sent,                 \* PlayerPosition packets sent to the client, in order
    calls,                   \* per task: its request_teleport call in progress
    tp_started,              \* number of request_teleport calls started
    teleports,               \* per task: its EntityBase::teleport call in progress
    tp_broadcast,            \* CEntityPositionSync packets broadcast to the others
    \* ---- Experience of one player ----
    experience_level,        \* Player::experience_level
    experience_progress,     \* Player::experience_progress, as a fraction
    experience_points,       \* Player::experience_points
    last_sent_xp,            \* Player::last_sent_xp
    xp_out,                  \* the packets sent by the latest operation
    xp_last,                 \* the experience operation performed last
    xp_ops,                  \* number of experience operations performed
    \* ---- One call of AnvilChunkData::to_chunk_data ----
    decode_pc,               \* where the call is: start, sections, words, done
    decode_result,           \* the Result it returned
    block_index,             \* the local block_index (the write index)
    sections_read,           \* sections of chunk_data.sections consumed
    section,                 \* the section being decoded and its locals
    word_no,                 \* words of block_data consumed
    section_writes,          \* history: cells written for this section
    last_writes,             \* history: cells written by the latest word
    \* ---- One call of AnvilWorldFormat::read_chunk ----
    chunk_at,                \* the argument `at`: the chunk's (x, z)
    region_file,             \* the region file on disk
    chunk_read,              \* the call's result, reads and locals
    \* ---- Gamemode and abilities of one player ----
    gamemode,                \* Player::gamemode
    abilities,               \* Player::abilities (the four flags)
    invulnerable,            \* Entity::invulnerable
    gm_out,                  \* the packets sent by the latest set_gamemode
    gm_last,                 \* the latest set_gamemode call and the state before it
    gm_ops,                  \* number of set_gamemode calls made
    \* ---- Screen handlers and locks of one player ----
    current_screen_handler,  \* Player::current_screen_handler (which handler)
    screen_handler_sync_id,  \* Player::screen_handler_sync_id
    handler_sync,            \* per handler: its sync_id()
    handlers_made,           \* handlers created by screen handler factories
    field_lock,              \* per mutex field of the player: the task holding it
    handler_lock,            \* per screen handler: the task holding its mutex
    screen_tasks,            \* per task: the operation in progress and its locals
    screen_out,              \* CloseContainer / OpenScreen packets sent, in order
    screen_ops,              \* number of operations started
    \* ---- One call of LevelDat::read_level_dat ----
    level_file,              \* <world>/level.dat on disk
    level_read,              \* the call's result
    \* ---- The section list of one chunk ----
    chunk_sections,          \* chunk_data.sections, in list order
    slabs,                   \* history: the cells each decoded section filled
    \* ---- The lanes of one data word ----
    lane_word,               \* the i64 `block` of block_data
    lane_palette,            \* the section's pallete vector
    lane_i,                  \* the loop variable i
    lane_decoded,            \* history: the block states the lanes gave
    lane_panicked,           \* the pallete was indexed out of bounds
    \* ---- One call of Player::teleport_world ----
    tw_pc,                   \* where the call is
    tw_event,                \* the PlayerChangeWorldEvent as the subscribers left it
    old_roster,              \* current_world.players: the uuids registered
    new_roster,              \* new_world.players: the Player registered under the uuid
    self_player,             \* the Player the call runs on (`self`)
    chunk_watchers,          \* current_world.level: watchers per loaded chunk
    tw_sent,                 \* packets handed to the client, in program order
    tw_watched,              \* history: the chunks of the cylinder watched at the call
    \* ---- Concurrent add_experience_points calls ----
    xp_tasks                 \* per task: its call in progress and its locals

connVars == <<cfg, connection_state, closed, panicked, protocol_version,
              server_address, gameprofile, encryption, compression,
              make_player, player_config, brand, sent, kicks, last, handled>>

playerVars == <<platform, chunk_queue, chunks_per_tick, batches_sent_since_ack,
                wait_for_keep_alive, keep_alive_id, last_keep_alive_time,
                client_loaded, client_loaded_timeout, now, player_kick,
                tick_out, batches, acked, desired_rate10, unloaded_ticks>>

cacheVars == <<full_cache, last_seen, cache_ops, indexed>>

worldVars == <<session_lock, level_dat, loaders>>

tpVars == <<overflow_checks, teleport_id_count, awaiting_teleport, position,
            rotation, tp_sent, calls, tp_started, teleports, tp_broadcast>>

coreVars == <<connVars, playerVars, cacheVars, worldVars>>

xpVars == <<experience_level, experience_progress, experience_points,
            last_sent_xp, xp_out, xp_last, xp_ops>>

decodeVars == <<decode_pc, decode_result, block_index, sections_read, section,
                word_no, section_writes, last_writes>>

regionVars == <<chunk_at, region_file, chunk_read>>

gmVars == <<gamemode, abilities, invulnerable, gm_out, gm_last, gm_ops>>

screenVars == <<current_screen_handler, screen_handler_sync_id, handler_sync,
                handlers_made, field_lock, handler_lock, screen_tasks,
                screen_out, screen_ops>>

levelVars == <<level_file, level_read>>

orderVars == <<chunk_sections, slabs>>

laneVars == <<lane_word, lane_palette, lane_i, lane_decoded, lane_panicked>>

twVars == <<tw_pc, tw_event, old_roster, new_roster, self_player, chunk_watchers,
            tw_sent, tw_watched>>

xpTaskVars == <<xp_tasks>>

lastVars == <<twVars, xpTaskVars>>

moreVars == <<gmVars, screenVars, levelVars, orderVars, laneVars, lastVars>>

restVars == <<tpVars, xpVars, decodeVars, regionVars, moreVars>>

vars == <<connVars, playerVars, cacheVars, worldVars, restVars>>

\* ------------------------------------------------------------------------
\* Bounds
\* ------------------------------------------------------------------------
MaxPackets == 5       \* inbound packets handled on one connection
MaxQueue == 3         \* chunks waiting in one player's chunk queue
MaxChunkId == 2       \* distinct chunks pushed
MaxTime == 32         \* seconds of clock time followed
MaxElapsedMs == 1     \* largest now.elapsed() read for a keep-alive id
MaxCacheOps == 3      \* operations applied to one signature cache
MaxSigList == 2       \* signatures in one cache_signatures call
MaxLoaders == 3       \* load_world calls on one world directory
MaxLoadTicks == 61    \* ticks counted since client_loaded was set false

\* ------------------------------------------------------------------------
\* Program constants
\* ------------------------------------------------------------------------
CURRENT_MC_PROTOCOL == 767
MAX_NAME_LEN == 16    \* is_valid_player_name: name.len() <= 16
CHAR_LOW == 32        \* is_valid_player_name: c > 32
CHAR_HIGH == 127      \* is_valid_player_name: c < 127
NOTCHIAN_BATCHES_WITHOUT_ACK_UNTIL_PAUSE == 10
DEFAULT_CHUNKS_PER_TICK == 16
KEEP_ALIVE_TIMEOUT_SECS == 15
CLIENT_LOADED_TIMEOUT == 60
MAX_CACHED_SIGNATURES == 128
MAX_PREVIOUS_MESSAGES == 20
U8_RANGE == 256       \* BatchState::Count(u8)

\* ========================================================================
\* Client connection
\* ========================================================================
NoProfile == [id |-> "", name |-> <<>>, some |-> FALSE]
Profile(id, name) == [id |-> id, name |-> name, some |-> TRUE]

Pkt(type, id, name, text) == [type |-> type, id |-> id, name |-> name, text |-> text]
Plain(type) == Pkt(type, "", <<>>, "")

\* The connection as one value, so that a handler is a function of it.
Client == [connection_state |-> connection_state, closed |-> closed,
           panicked |-> panicked, protocol_version |-> protocol_version,
           server_address |-> server_address, gameprofile |-> gameprofile,
           encryption |-> encryption, compression |-> compression,
           make_player |-> make_player, player_config |-> player_config,
           brand |-> brand, sent |-> sent, kicks |-> kicks]

send_packet(c, p) == [c EXCEPT !.sent = Append(@, p)]

close(c) == [c EXCEPT !.closed = TRUE]

\* Client::kick: the Disconnect packet carrying the reason, then close.
kick(c, reason) ==
    close([send_packet(c, Pkt("Disconnect", "", <<>>, reason))
              EXCEPT !.kicks = Append(@, reason)])

\* A handler that panics (unwrap on Err / None) aborts the handling task.
panic(c) == [c EXCEPT !.panicked = TRUE]

\* From<VarInt> for ConnectionState, as the handshake's next_state is read.
NextStateOf(n) ==
    CASE n = 1 -> "Status"
      [] n = 2 -> "Login"
      [] OTHER -> "Invalid"

\* handle_handshake without the test for Status: the version is compared
\* whatever phase is requested.
handle_handshake_any_phase(c, version, address, next_state) ==
    LET c1 == [c EXCEPT !.protocol_version = version,
                        !.server_address = address,
                        !.connection_state = next_state]
    IN CASE version < CURRENT_MC_PROTOCOL -> kick(c1, "Client outdated")
         [] version = CURRENT_MC_PROTOCOL -> c1
         [] version > CURRENT_MC_PROTOCOL -> kick(c1, "Server outdated")

handle_handshake(c, version, address, next_state) ==
    LET c1 == [c EXCEPT !.protocol_version = version,
                        !.server_address = address,
                        !.connection_state = next_state]
    IN IF c1.connection_state # "Status"
       THEN CASE version < CURRENT_MC_PROTOCOL -> kick(c1, "Client outdated")
              [] version = CURRENT_MC_PROTOCOL -> c1
              [] version > CURRENT_MC_PROTOCOL -> kick(c1, "Server outdated")
       ELSE c1

handle_status_request(c) == send_packet(c, Plain("StatusResponse"))

handle_ping_request(c, payload) ==
    close(send_packet(c, Pkt("PingResponse", "", <<>>, payload)))

RECURSIVE AllChars(_, _)
\* name.chars().all(|c| c > 32 && c < 127)
AllChars(name, i) ==
    IF i > Len(name) THEN TRUE
    ELSE /\ name[i] > CHAR_LOW
         /\ name[i] < CHAR_HIGH
         /\ AllChars(name, i + 1)

is_valid_player_name(name) ==
    /\ Len(name) <= MAX_NAME_LEN
    /\ AllChars(name, 1)

enable_compression(c) ==
    [send_packet(c, Plain("SetCompression")) EXCEPT !.compression = TRUE]

finish_login(c, profile) ==
    send_packet(c, Pkt("LoginSuccess", profile.id, profile.name, ""))

\* proxy::velocity::velocity_login: the Plugin Request to the proxy.
velocity_login(c) == send_packet(c, Plain("LoginPluginRequest"))

\* bungee is the outcome of bungeecord::bungeecord_login.
handle_login_start(c, name, uuid, bungee) ==
    IF ~is_valid_player_name(name)
    THEN kick(c, "Invalid characters in username")
    ELSE IF cfg.proxy
         THEN IF cfg.velocity
              THEN velocity_login(c)
              ELSE IF cfg.bungeecord
                   THEN IF bungee = "Ok"
                        THEN [finish_login(c, Profile("PU", name))
                                 EXCEPT !.gameprofile = Profile("PU", name)]
                        ELSE kick(c, "bungeecord error")
                   ELSE c
         ELSE send_packet([c EXCEPT !.gameprofile = Profile(uuid, name)],
                          Pkt("EncryptionRequest", "", <<>>,
                              IF cfg.online_mode THEN "auth" ELSE "noauth"))

\* decrypt, enc, auth are the outcomes of server.decrypt, set_encryption and
\* autenticate.
handle_encryption_response(c, decrypt, enc, auth) ==
    IF decrypt # "Ok"
    THEN panic(c)                      \* server.decrypt(..).unwrap()
    ELSE IF enc # "Ok"
    THEN kick(c, "encryption error")
    ELSE LET c1 == [c EXCEPT !.encryption = TRUE] IN
         IF cfg.online_mode /\ ~c1.gameprofile.some
         THEN panic(c1)                \* gameprofile.as_ref().unwrap()
         ELSE LET c2 == IF cfg.online_mode
                        THEN IF auth = "Ok"
                             THEN [c1 EXCEPT !.gameprofile =
                                       Profile("AU", c1.gameprofile.name)]
                             ELSE kick(c1, "auth error")
                        ELSE c1
              IN IF c2.gameprofile.some
                 THEN finish_login(
                          IF cfg.compression THEN enable_compression(c2) ELSE c2,
                          c2.gameprofile)
                 ELSE kick(c2, "No Game profile")

\* velocity is the outcome of velocity::receive_velocity_plugin_response.
handle_plugin_response(c, velocity) ==
    IF cfg.velocity
    THEN IF velocity = "Ok"
         THEN [finish_login(c, Profile("VU", <<65>>))
                  EXCEPT !.gameprofile = Profile("VU", <<65>>)]
         ELSE kick(c, "velocity error")
    ELSE c

\* handle_login_acknowledged storing Play, the phase after the next.
handle_login_acknowledged_play(c) ==
    LET c1 == send_packet([c EXCEPT !.connection_state = "Play"],
                          Plain("Branding"))
        c2 == IF cfg.resource_pack
              THEN send_packet(c1, Plain("AddResourcePack"))
              ELSE c1
    IN send_packet(c2, Plain("KnownPacks"))

handle_login_acknowledged(c) ==
    LET c1 == send_packet([c EXCEPT !.connection_state = "Config"],
                          Plain("Branding"))
        c2 == IF cfg.resource_pack
              THEN send_packet(c1, Plain("AddResourcePack"))
              ELSE c1
    IN send_packet(c2, Plain("KnownPacks"))

handle_client_information_config(c, valid) ==
    IF valid THEN [c EXCEPT !.player_config = TRUE]
    ELSE kick(c, "Invalid hand or chat type")

handle_plugin_message(c, is_brand, utf8) ==
    IF is_brand
    THEN IF utf8 THEN [c EXCEPT !.brand = TRUE]
         ELSE kick(c, "invalid utf-8")
    ELSE c

handle_known_packs(c) ==
    send_packet(send_packet(c, Plain("RegistryData")), Plain("FinishConfig"))

handle_config_acknowledged(c) ==
    [c EXCEPT !.connection_state = "Play", !.make_player = TRUE]

\* ------------------------------------------------------------------------
\* Packet routing by phase (Client::handle_packet) and the inputs tried
\* ------------------------------------------------------------------------
Versions == {CURRENT_MC_PROTOCOL - 1, CURRENT_MC_PROTOCOL, CURRENT_MC_PROTOCOL + 1}
NextStates == 0..3
Chars == {CHAR_LOW, CHAR_LOW + 1, CHAR_HIGH - 1, CHAR_HIGH}
NameLens == {0, 1, MAX_NAME_LEN, MAX_NAME_LEN + 1}
Names == {[i \in 1..n |-> ch] : n \in NameLens, ch \in Chars}
Uuids == {"U"}
Outcomes == {"Ok", "Err"}

NoPacket == [kind |-> "none", version |-> 0, next |-> 0, name |-> <<>>,
             uuid |-> "", decrypt |-> "", enc |-> "", auth |-> "", proxy |-> ""]

Configs == [online_mode : BOOLEAN, proxy : BOOLEAN, velocity : BOOLEAN,
            bungeecord : BOOLEAN, compression : BOOLEAN, resource_pack : BOOLEAN]

InitConn ==
    /\ cfg \in Configs
    /\ connection_state = "HandShake"
    /\ closed = FALSE
    /\ panicked = FALSE
    /\ protocol_version = 0
    /\ server_address = ""
    /\ gameprofile = NoProfile
    /\ encryption = FALSE
    /\ compression = FALSE
    /\ make_player = FALSE
    /\ player_config = FALSE
    /\ brand = FALSE
    /\ sent = <<>>
    /\ kicks = <<>>
    /\ last = NoPacket
    /\ handled = 0

\* The connection accepts a packet: it is open, its task is alive, and it is
\* in the phase the packet belongs to.
Accepts(phase) ==
    /\ ~closed
    /\ ~panicked
    /\ handled < MaxPackets
    /\ connection_state = phase

\* The connection becomes c, having handled packet p.
Becomes(c, p) ==
    /\ connection_state' = c.connection_state
    /\ closed' = c.closed
    /\ panicked' = c.panicked
    /\ protocol_version' = c.protocol_version
    /\ server_address' = c.server_address
    /\ gameprofile' = c.gameprofile
    /\ encryption' = c.encryption
    /\ compression' = c.compression
    /\ make_player' = c.make_player
    /\ player_config' = c.player_config
    /\ brand' = c.brand
    /\ sent' = c.sent
    /\ kicks' = c.kicks
    /\ last' = p
    /\ handled' = handled + 1
    /\ UNCHANGED <<cfg, playerVars, cacheVars, worldVars, restVars>>

RecvHandshake ==
    /\ Accepts("HandShake")
    /\ \E version \in Versions, next \in NextStates :
          LET p == [NoPacket EXCEPT !.kind = "Handshake", !.version = version,
                                    !.next = next]
          IN IF NextStateOf(next) = "Invalid"
             THEN Becomes(close(Client), p)
             ELSE Becomes(handle_handshake(Client, version, "x", NextStateOf(next)), p)

RecvStatusRequest ==
    /\ Accepts("Status")
    /\ Becomes(handle_status_request(Client), [NoPacket EXCEPT !.kind = "StatusRequest"])

RecvPingRequest ==
    /\ Accepts("Status")
    /\ Becomes(handle_ping_request(Client, "42"), [NoPacket EXCEPT !.kind = "PingRequest"])

RecvLoginStart ==
    /\ Accepts("Login")
    /\ \E name \in Names, uuid \in Uuids, bungee \in Outcomes :
          Becomes(handle_login_start(Client, name, uuid, bungee),
                  [NoPacket EXCEPT !.kind = "LoginStart", !.name = name,
                                   !.uuid = uuid, !.proxy = bungee])

RecvEncryptionResponse ==
    /\ Accepts("Login")
    /\ \E decrypt \in Outcomes, enc \in Outcomes, auth \in Outcomes :
          Becomes(handle_encryption_response(Client, decrypt, enc, auth),
                  [NoPacket EXCEPT !.kind = "EncryptionResponse",
                                   !.decrypt = decrypt, !.enc = enc, !.auth = auth])

RecvPluginResponse ==
    /\ Accepts("Login")
    /\ \E velocity \in Outcomes :
          Becomes(handle_plugin_response(Client, velocity),
                  [NoPacket EXCEPT !.kind = "PluginResponse", !.proxy = velocity])

RecvLoginAcknowledged ==
    /\ Accepts("Login")
    /\ Becomes(handle_login_acknowledged(Client),
               [NoPacket EXCEPT !.kind = "LoginAcknowledged"])

RecvClientInformation ==
    /\ Accepts("Config")
    /\ \E valid \in BOOLEAN :
          Becomes(handle_client_information_config(Client, valid),
                  [NoPacket EXCEPT !.kind = "ClientInformation"])

RecvPluginMessage ==
    /\ Accepts("Config")
    /\ \E is_brand \in BOOLEAN, utf8 \in BOOLEAN :
          Becomes(handle_plugin_message(Client, is_brand, utf8),
                  [NoPacket EXCEPT !.kind = "PluginMessage"])

RecvKnownPacks ==
    /\ Accepts("Config")
    /\ Becomes(handle_known_packs(Client), [NoPacket EXCEPT !.kind = "KnownPacks"])

RecvConfigAcknowledged ==
    /\ Accepts("Config")
    /\ Becomes(handle_config_acknowledged(Client),
               [NoPacket EXCEPT !.kind = "ConfigAcknowledged"])

\* A packet id that the current phase does not know closes the connection.
RecvUnexpected ==
    /\ ~closed
    /\ ~panicked
    /\ handled < MaxPackets
    /\ connection_state # "Play"
    /\ Becomes(close(Client), [NoPacket EXCEPT !.kind = "Unexpected"])

NextConn ==
    \/ RecvHandshake
    \/ RecvStatusRequest
    \/ RecvPingRequest
    \/ RecvLoginStart
    \/ RecvEncryptionResponse
    \/ RecvPluginResponse
    \/ RecvLoginAcknowledged
    \/ RecvClientInformation
    \/ RecvPluginMessage
    \/ RecvKnownPacks
    \/ RecvConfigAcknowledged
    \/ RecvUnexpected

\* The phase of the connection as the specification names it.
Phase == IF closed \/ panicked THEN "Closed" ELSE connection_state

\* ========================================================================
\* Player runtime: chunk streaming queue, client-loaded timeout, keep-alive
\* ========================================================================
Initial == [tag |-> "Initial", n |-> 0]
Waiting == [tag |-> "Waiting", n |-> 0]
Count(n) == [tag |-> "Count", n |-> n]

Min(a, b) == IF a < b THEN a ELSE b

\* The player's ChunkManager as one value.
ChunkManager == [chunks_per_tick |-> chunks_per_tick, chunk_queue |-> chunk_queue,
                 batches_sent_since_ack |-> batches_sent_since_ack]

ChunkManager_new(per_tick) ==
    [chunks_per_tick |-> per_tick, chunk_queue |-> <<>>,
     batches_sent_since_ack |-> Initial]

\* chunks_per_tick.ceil() as usize, the desired rate given in tenths of a
\* chunk: the cast saturates, so anything at or below zero becomes 0.
CeilAsUsize(rate10) == IF rate10 <= 0 THEN 0 ELSE (rate10 + 9) \div 10

handle_acknowledge(cm, rate10) ==
    [cm EXCEPT !.batches_sent_since_ack = Count(0),
               !.chunks_per_tick = CeilAsUsize(rate10)]

push_chunk(cm, chunk) == [cm EXCEPT !.chunk_queue = Append(@, chunk)]

\* can_send_chunk comparing with <= : one batch more before the pause.
can_send_chunk_off_by_one(cm) ==
    LET state_available ==
            CASE cm.batches_sent_since_ack.tag = "Count" ->
                     cm.batches_sent_since_ack.n <= NOTCHIAN_BATCHES_WITHOUT_ACK_UNTIL_PAUSE
              [] cm.batches_sent_since_ack.tag = "Initial" -> TRUE
              [] cm.batches_sent_since_ack.tag = "Waiting" -> FALSE
    IN state_available /\ cm.chunk_queue # <<>>

can_send_chunk(cm) ==
    LET state_available ==
            CASE cm.batches_sent_since_ack.tag = "Count" ->
                     cm.batches_sent_since_ack.n < NOTCHIAN_BATCHES_WITHOUT_ACK_UNTIL_PAUSE
              [] cm.batches_sent_since_ack.tag = "Initial" -> TRUE
              [] cm.batches_sent_since_ack.tag = "Waiting" -> FALSE
    IN state_available /\ cm.chunk_queue # <<>>

\* next_chunk draining from the back of the queue: the newest chunks.
next_chunk_newest_first(cm) ==
    LET chunk_size == Min(Len(cm.chunk_queue), cm.chunks_per_tick)
        state == cm.batches_sent_since_ack
    IN [chunks |-> SubSeq(cm.chunk_queue, Len(cm.chunk_queue) - chunk_size + 1,
                          Len(cm.chunk_queue)),
        cm |-> [cm EXCEPT
                  !.chunk_queue = SubSeq(@, 1, Len(@) - chunk_size),
                  !.batches_sent_since_ack =
                      CASE state.tag = "Count" -> Count((state.n + 1) % U8_RANGE)
                        [] state.tag = "Initial" -> Waiting
                        [] state.tag = "Waiting" -> state]]

\* next_chunk: the chunks drained (chunks) and the manager afterwards (cm).
next_chunk(cm) ==
    LET chunk_size == Min(Len(cm.chunk_queue), cm.chunks_per_tick)
        state == cm.batches_sent_since_ack
    IN [chunks |-> SubSeq(cm.chunk_queue, 1, chunk_size),
        cm |-> [cm EXCEPT
                  !.chunk_queue = SubSeq(@, chunk_size + 1, Len(@)),
                  !.batches_sent_since_ack =
                      CASE state.tag = "Count" -> Count((state.n + 1) % U8_RANGE)
                        [] state.tag = "Initial" -> Waiting
                        [] state.tag = "Waiting" -> state]]

Out(type, arg) == [type |-> type, arg |-> arg]

NoKick == [reason |-> "", text |-> ""]

\* Player::tick, the chunk step: whether a batch goes out (batch), its
\* packets (out) and the manager afterwards (cm).
tick_chunks(cm) ==
    IF platform = "Java"
    THEN IF can_send_chunk(cm)
         THEN LET r == next_chunk(cm) IN
              [batch |-> TRUE, cm |-> r.cm,
               out |-> <<Out("ChunkBatchStart", 0)>>
                       \o [i \in 1..Len(r.chunks) |-> Out("ChunkData", r.chunks[i])]
                       \o <<Out("ChunkBatchEnd", Len(r.chunks))>>]
         ELSE [batch |-> FALSE, cm |-> cm, out |-> <<>>]
    ELSE LET r == next_chunk(cm) IN
         [batch |-> TRUE, cm |-> r.cm,
          out |-> [i \in 1..Len(r.chunks) |-> Out("LevelChunk", r.chunks[i])]]

\* The timeout runs down whether or not the client has loaded.
tick_client_load_timeout_always ==
    IF client_loaded_timeout > 0 THEN client_loaded_timeout - 1 ELSE 0

\* timeout.saturating_sub(1) while the client has not reported loading
tick_client_load_timeout ==
    IF ~client_loaded
    THEN IF client_loaded_timeout > 0 THEN client_loaded_timeout - 1 ELSE 0
    ELSE client_loaded_timeout

\* Player::has_client_loaded
has_client_loaded == client_loaded \/ client_loaded_timeout = 0

\* Player::set_client_loaded: the fields afterwards.
set_client_loaded(loaded) ==
    [client_loaded |-> loaded,
     client_loaded_timeout |-> IF ~loaded THEN CLIENT_LOADED_TIMEOUT
                               ELSE client_loaded_timeout]

\* The keep-alive step without the test of wait_for_keep_alive: a new
\* keep-alive goes out every 15 s, answered or not.
tick_keep_alive_no_timeout(id) ==
    LET same == [wait |-> wait_for_keep_alive, last |-> last_keep_alive_time,
                 id |-> keep_alive_id, kick |-> NoKick, out |-> <<>>]
    IN IF now - last_keep_alive_time >= KEEP_ALIVE_TIMEOUT_SECS
       THEN IF platform = "Bedrock"
            THEN same
            ELSE [wait |-> TRUE, last |-> now, id |-> id, kick |-> NoKick,
                  out |-> <<Out("KeepAlive", id)>>]
       ELSE same

\* Player::tick, the keep-alive step; id is now.elapsed().as_millis().
tick_keep_alive(id) ==
    LET same == [wait |-> wait_for_keep_alive, last |-> last_keep_alive_time,
                 id |-> keep_alive_id, kick |-> NoKick, out |-> <<>>]
    IN IF now - last_keep_alive_time >= KEEP_ALIVE_TIMEOUT_SECS
       THEN IF platform = "Bedrock"
            THEN same
            ELSE IF wait_for_keep_alive
                 THEN [same EXCEPT !.kick = [reason |-> "Timeout",
                                             text |-> "disconnect.timeout"]]
                 ELSE [wait |-> TRUE, last |-> now, id |-> id, kick |-> NoKick,
                       out |-> <<Out("KeepAlive", id)>>]
       ELSE same

\* Player::new
InitPlayer ==
    /\ platform \in {"Java", "Bedrock"}
    /\ chunks_per_tick = ChunkManager_new(DEFAULT_CHUNKS_PER_TICK).chunks_per_tick
    /\ chunk_queue = ChunkManager_new(DEFAULT_CHUNKS_PER_TICK).chunk_queue
    /\ batches_sent_since_ack =
           ChunkManager_new(DEFAULT_CHUNKS_PER_TICK).batches_sent_since_ack
    /\ wait_for_keep_alive = FALSE
    /\ keep_alive_id = 0
    /\ last_keep_alive_time = 0
    /\ client_loaded = FALSE
    /\ client_loaded_timeout = CLIENT_LOADED_TIMEOUT
    /\ now = 0
    /\ player_kick = NoKick
    /\ tick_out = <<>>
    /\ batches = 0
    /\ acked = FALSE
    /\ desired_rate10 = 0
    /\ unloaded_ticks = 0

\* A player whose client has reported that it has loaded.
InitPlayerLoaded ==
    /\ platform \in {"Java", "Bedrock"}
    /\ chunks_per_tick = DEFAULT_CHUNKS_PER_TICK
    /\ chunk_queue = <<>>
    /\ batches_sent_since_ack = Initial
    /\ wait_for_keep_alive = FALSE
    /\ keep_alive_id = 0
    /\ last_keep_alive_time = 0
    /\ client_loaded = TRUE
    /\ client_loaded_timeout = CLIENT_LOADED_TIMEOUT
    /\ now = 0
    /\ player_kick = NoKick
    /\ tick_out = <<>>
    /\ batches = 0
    /\ acked = FALSE
    /\ desired_rate10 = 0
    /\ unloaded_ticks = 0

Alive == player_kick = NoKick

\* One Player::tick. The steps of the tick that touch none of the fields
\* above (screen handler flush, block-change acknowledgment, pick-up delay,
\* tick counter, sleeping, mining, living entity, hunger, experience,
\* health) are not represented.
Tick ==
    /\ Alive
    /\ \E id \in 0..MaxElapsedMs :
          LET c == tick_chunks(ChunkManager)
              k == tick_keep_alive(id)
          IN /\ chunks_per_tick' = c.cm.chunks_per_tick
             /\ chunk_queue' = c.cm.chunk_queue
             /\ batches_sent_since_ack' = c.cm.batches_sent_since_ack
             /\ batches' = IF c.batch /\ platform = "Java" THEN batches + 1 ELSE batches
             /\ client_loaded_timeout' = tick_client_load_timeout
             /\ wait_for_keep_alive' = k.wait
             /\ last_keep_alive_time' = k.last
             /\ keep_alive_id' = k.id
             /\ player_kick' = k.kick
             /\ tick_out' = c.out \o k.out
    /\ unloaded_ticks' = IF client_loaded THEN unloaded_ticks
                         ELSE Min(unloaded_ticks + 1, MaxLoadTicks)
    /\ UNCHANGED <<platform, client_loaded, now, acked, desired_rate10>>
    /\ UNCHANGED <<connVars, cacheVars, worldVars, restVars>>

\* A background task hands a loaded chunk to the player.
PushChunk ==
    /\ Alive
    /\ Len(chunk_queue) < MaxQueue
    /\ \E chunk \in 1..MaxChunkId :
          chunk_queue' = push_chunk(ChunkManager, chunk).chunk_queue
    /\ UNCHANGED <<platform, chunks_per_tick, batches_sent_since_ack,
                   wait_for_keep_alive, keep_alive_id, last_keep_alive_time,
                   client_loaded, client_loaded_timeout, now, player_kick,
                   tick_out, batches, acked, desired_rate10, unloaded_ticks>>
    /\ UNCHANGED <<connVars, cacheVars, worldVars, restVars>>

\* Desired rates a Java client reports, in tenths of a chunk per tick.
Rates10 == {-10, 0, 5, 10, 15, 20}

\* The Java client acknowledges a chunk batch.
HandleAck ==
    /\ Alive
    /\ platform = "Java"
    /\ \E rate10 \in Rates10 :
          LET cm == handle_acknowledge(ChunkManager, rate10) IN
          /\ chunks_per_tick' = cm.chunks_per_tick
          /\ batches_sent_since_ack' = cm.batches_sent_since_ack
          /\ chunk_queue' = cm.chunk_queue
          /\ desired_rate10' = rate10
    /\ batches' = 0
    /\ acked' = TRUE
    /\ UNCHANGED <<platform, wait_for_keep_alive, keep_alive_id,
                   last_keep_alive_time, client_loaded, client_loaded_timeout,
                   now, player_kick, tick_out, unloaded_ticks>>
    /\ UNCHANGED <<connVars, cacheVars, worldVars, restVars>>

\* The clock advances by one second.
AdvanceTime ==
    /\ now < MaxTime
    /\ now' = now + 1
    /\ UNCHANGED <<platform, chunk_queue, chunks_per_tick, batches_sent_since_ack,
                   wait_for_keep_alive, keep_alive_id, last_keep_alive_time,
                   client_loaded, client_loaded_timeout, player_kick, tick_out,
                   batches, acked, desired_rate10, unloaded_ticks>>
    /\ UNCHANGED <<connVars, cacheVars, worldVars, restVars>>

\* The client answers the outstanding keep-alive with the id it carried.
HandleKeepAlive ==
    /\ Alive
    /\ wait_for_keep_alive
    /\ wait_for_keep_alive' = FALSE
    /\ UNCHANGED <<platform, chunk_queue, chunks_per_tick, batches_sent_since_ack,
                   keep_alive_id, last_keep_alive_time, client_loaded,
                   client_loaded_timeout, now, player_kick, tick_out, batches,
                   acked, desired_rate10, unloaded_ticks>>
    /\ UNCHANGED <<connVars, cacheVars, worldVars, restVars>>

\* set_client_loaded is called: with true when the client reports that it
\* has loaded, with false when the player is killed or changes world.
SetClientLoaded ==
    /\ Alive
    /\ \E loaded \in BOOLEAN :
          /\ client_loaded' = set_client_loaded(loaded).client_loaded
          /\ client_loaded_timeout' = set_client_loaded(loaded).client_loaded_timeout
          /\ unloaded_ticks' = IF ~loaded THEN 0 ELSE unloaded_ticks
    /\ UNCHANGED <<platform, chunk_queue, chunks_per_tick, batches_sent_since_ack,
                   wait_for_keep_alive, keep_alive_id, last_keep_alive_time,
                   now, player_kick, tick_out, batches, acked, desired_rate10>>
    /\ UNCHANGED <<connVars, cacheVars, worldVars, restVars>>

\* ========================================================================
\* Chat signature cache
\* ========================================================================
MessageCache == [full_cache |-> full_cache, last_seen |-> last_seen]

Contains(seq, x) == \E i \in 1..Len(seq) : seq[i] = x

RECURSIVE cache_from(_, _, _)
\* the loop of cache_signatures from index i of the list down to its first
cache_from(cache, signatures, i) ==
    IF i = 0 THEN cache
    ELSE LET sig == signatures[i] IN
         IF Contains(cache, sig)
         THEN cache_from(cache, signatures, i - 1)
         ELSE IF Len(cache) < MAX_CACHED_SIGNATURES
              THEN cache_from(Append(cache, sig), signatures, i - 1)
              ELSE cache_from(cache, signatures, i - 1)

cache_signatures(mc, signatures) ==
    [mc EXCEPT !.full_cache = cache_from(@, signatures, Len(signatures))]

RECURSIVE pop_front_while_full(_)
\* The trimming loop dropping the most recent entry instead.
pop_front_while_full(cache) ==
    IF Len(cache) >= MAX_CACHED_SIGNATURES
    THEN pop_front_while_full(Tail(cache))
    ELSE cache

RECURSIVE pop_back_while_full(_)
\* while full_cache.len() >= MAX_CACHED_SIGNATURES { pop_back }
pop_back_while_full(cache) ==
    IF Len(cache) >= MAX_CACHED_SIGNATURES
    THEN pop_back_while_full(SubSeq(cache, 1, Len(cache) - 1))
    ELSE cache

\* add_seen_signature trimming last_seen only once it is over its cap.
add_seen_signature_late_trim(mc, signature) ==
    LET seen == IF Len(mc.last_seen) > MAX_PREVIOUS_MESSAGES
                THEN Tail(mc.last_seen)
                ELSE mc.last_seen
    IN [full_cache |-> <<signature>> \o pop_back_while_full(mc.full_cache),
        last_seen |-> Append(seen, signature)]

add_seen_signature(mc, signature) ==
    LET seen == IF Len(mc.last_seen) >= MAX_PREVIOUS_MESSAGES
                THEN Tail(mc.last_seen)
                ELSE mc.last_seen
    IN [full_cache |-> <<signature>> \o pop_back_while_full(mc.full_cache),
        last_seen |-> Append(seen, signature)]

\* No indexed_for call has been made.
NoIndexed == [called |-> FALSE, seen |-> <<>>, recipient |-> <<>>, out |-> <<>>]

\* The cache after add_seen_signature(1), ..., add_seen_signature(n) on a
\* fresh MessageCache.
SeenCounts == {0, 1, MAX_PREVIOUS_MESSAGES - 1, MAX_PREVIOUS_MESSAGES,
               MAX_CACHED_SIGNATURES - 1, MAX_CACHED_SIGNATURES}

InitCache ==
    \E n \in SeenCounts :
       /\ full_cache = [i \in 1..n |-> n + 1 - i]
       /\ last_seen = [i \in 1..Min(n, MAX_PREVIOUS_MESSAGES) |->
                          n - Min(n, MAX_PREVIOUS_MESSAGES) + i]
       /\ cache_ops = 0
       /\ indexed = NoIndexed

\* Signatures passed in: one the cache may hold and two it does not.
SigInputs == {1, MAX_CACHED_SIGNATURES + 1, MAX_CACHED_SIGNATURES + 2}

SigLists == UNION {[1..n -> SigInputs] : n \in 0..MaxSigList}

AddSeenSignature ==
    /\ cache_ops < MaxCacheOps
    /\ \E sig \in SigInputs :
          LET mc == add_seen_signature(MessageCache, sig) IN
          /\ full_cache' = mc.full_cache
          /\ last_seen' = mc.last_seen
    /\ cache_ops' = cache_ops + 1
    /\ UNCHANGED indexed
    /\ UNCHANGED <<connVars, playerVars, worldVars, restVars>>

CacheSignatures ==
    /\ cache_ops < MaxCacheOps
    /\ \E sigs \in SigLists :
          LET mc == cache_signatures(MessageCache, sigs) IN
          /\ full_cache' = mc.full_cache
          /\ last_seen' = mc.last_seen
    /\ cache_ops' = cache_ops + 1
    /\ UNCHANGED indexed
    /\ UNCHANGED <<connVars, playerVars, worldVars, restVars>>

\* ---- LastSeen::indexed_for (pumpkin/src/entity/player/last_seen.rs) ----
NoSignature == 0

PreviousMessage(id, signature) == [id |-> id, signature |-> signature]

\* full_cache.iter().position(|s| s == signature), -1 for None
position_of(cache, signature) ==
    IF Contains(cache, signature)
    THEN (CHOOSE i \in 1..Len(cache) :
             /\ cache[i] = signature
             /\ \A j \in 1..(i - 1) : cache[j] # signature) - 1
    ELSE -1

indexed_for_zero_based(seen, recipient_cache) ==
    [k \in 1..Len(seen) |->
        LET index == position_of(recipient_cache, seen[k])
        IN  IF index >= 0 THEN PreviousMessage(index, NoSignature)
            ELSE PreviousMessage(0, seen[k])]

indexed_for(seen, recipient_cache) ==
    [k \in 1..Len(seen) |->
        LET index == position_of(recipient_cache, seen[k])
        IN  IF index >= 0 THEN PreviousMessage(1 + index, NoSignature)
            ELSE PreviousMessage(0, seen[k])]

\* The full_cache of a recipient: the sender itself, a player that has seen
\* nothing, one that missed the latest message, one that saw another first.
RecipientCaches ==
    {full_cache, <<>>, IF full_cache = <<>> THEN <<>> ELSE Tail(full_cache),
     <<MAX_CACHED_SIGNATURES + 2>> \o full_cache}

\* The sender's last_seen is indexed for one recipient of a chat message.
IndexedFor ==
    /\ \E recipient_cache \in RecipientCaches :
          indexed' = [called |-> TRUE, seen |-> last_seen,
                      recipient |-> recipient_cache,
                      out |-> indexed_for(last_seen, recipient_cache)]
    /\ UNCHANGED <<full_cache, last_seen, cache_ops>>
    /\ UNCHANGED <<connVars, playerVars, worldVars, restVars>>

\* ========================================================================
\* World directory: session.lock and the loaders opened on it
\* ========================================================================
\* OpenOptions::new().write(true).open(session.lock): the open succeeds when
\* the file exists and is writable, whoever else has it open; there is no
\* create and no lock call.
open_session_lock(exists, alive) == exists

\* The result of load_world: the lock file is opened first, then level.dat
\* is read; an error drops the handle again.
load_world(exists, alive, dat) ==
    IF ~open_session_lock(exists, alive) THEN "WorldInUse"
    ELSE IF ~dat THEN "Error"
    ELSE "Alive"

AliveLoaders == {l \in 1..MaxLoaders : loaders[l] = "Alive"}

InitWorld ==
    /\ session_lock \in BOOLEAN
    /\ level_dat \in BOOLEAN
    /\ loaders = [l \in 1..MaxLoaders |-> "None"]

LoadWorld ==
    /\ \E l \in 1..MaxLoaders :
          /\ loaders[l] = "None"
          /\ loaders' = [loaders EXCEPT ![l] =
                            load_world(session_lock, AliveLoaders, level_dat)]
    /\ UNCHANGED <<session_lock, level_dat>>
    /\ UNCHANGED <<connVars, playerVars, cacheVars, restVars>>

\* An AnvilWorldFormat is dropped: its handle on session.lock is closed.
DropLoader ==
    /\ \E l \in 1..MaxLoaders :
          /\ loaders[l] = "Alive"
          /\ loaders' = [loaders EXCEPT ![l] = "Dropped"]
    /\ UNCHANGED <<session_lock, level_dat>>
    /\ UNCHANGED <<connVars, playerVars, cacheVars, restVars>>

\* The world directory changes under the server: files appear or vanish.
ChangeDirectory ==
    /\ \E s \in BOOLEAN, d \in BOOLEAN :
          /\ <<s, d>> # <<session_lock, level_dat>>
          /\ session_lock' = s
          /\ level_dat' = d
    /\ UNCHANGED loaders
    /\ UNCHANGED <<connVars, playerVars, cacheVars, restVars>>

\* ========================================================================
\* Teleports (pumpkin/src/entity/player/teleport.rs)
\* ========================================================================
MaxTasks == 2
MaxTeleports == 3

I32_MAX == 2147483647
I32_MIN == (-2147483647) - 1

Tasks == 1..MaxTasks

\* Vector3 values and (yaw, pitch) pairs a caller may pass.
Origin == "O"
Positions == {"A", "B"}
Rotations == {<<0, 0>>, <<90, 45>>}
ZeroVelocity == <<0, 0, 0>>

NoTeleport == [some |-> FALSE, id |-> 0, pos |-> Origin]
SomeTeleport(id, pos) == [some |-> TRUE, id |-> id, pos |-> pos]

\* i32 addition of a non-negative b that wraps around (two's complement).
wrapping_add(a, b) ==
    IF a > I32_MAX - b THEN I32_MIN + ((b - (I32_MAX - a)) - 1) ELSE a + b

\* AtomicI32::fetch_add: returns the previous value, stores the wrapped sum.
fetch_add(count, n) == [prev |-> count, count |-> wrapping_add(count, n)]

\* The `+` of i32: panics on overflow in a build with overflow checks,
\* wraps around in a build without.
add_i32(a, b, checks) ==
    [panic |-> (a > I32_MAX - b) /\ checks, value |-> wrapping_add(a, b)]

CPlayerPosition(id, pos, delta, yaw, pitch) ==
    [type |-> "PlayerPosition", id |-> id, pos |-> pos, delta |-> delta,
     yaw |-> yaw, pitch |-> pitch, flags |-> <<>>]

IdleTeleportCall == [pc |-> "idle", to |-> Origin, yaw |-> 0, pitch |-> 0]

IdleCall == [pc |-> "idle", to |-> Origin, yaw |-> 0, pitch |-> 0, i |-> 0, id |-> 0]

\* The teleport counters a long-running player can have reached.
TeleportCounts == {0, 1, I32_MAX - 1, I32_MAX}

InitTeleport ==
    /\ overflow_checks \in BOOLEAN
    /\ teleport_id_count \in TeleportCounts
    /\ awaiting_teleport = NoTeleport
    /\ position = Origin
    /\ rotation = <<0, 0>>
    /\ tp_sent = <<>>
    /\ calls = [t \in Tasks |-> IdleCall]
    /\ tp_started = 0
    /\ teleports = [t \in Tasks |-> IdleTeleportCall]
    /\ tp_broadcast = <<>>

otherThanTp == <<coreVars, xpVars, decodeVars, regionVars, moreVars>>

\* request_teleport is called, by a task of its own or from the 'after block
\* of teleport, and PlayerTeleportEvent is dispatched: a subscriber may cancel
\* it or change its target.
RequestTeleport(t) ==
    /\ calls[t].pc \in {"idle", "cancelled", "done"}
    /\ teleports[t].pc # "requested"
    /\ LET nested == teleports[t].pc = "after"
       IN  /\ IF nested THEN TRUE ELSE tp_started < MaxTeleports
           /\ \E to \in Positions, r \in Rotations, cancelled \in BOOLEAN :
                 /\ nested => r = <<teleports[t].yaw, teleports[t].pitch>>
                 /\ calls' = [calls EXCEPT ![t] =
                       [pc |-> IF cancelled THEN "cancelled" ELSE "after",
                        to |-> to, yaw |-> r[1], pitch |-> r[2], i |-> 0, id |-> 0]]
           /\ tp_started' = IF nested THEN tp_started ELSE tp_started + 1
           /\ teleports' = IF nested THEN [teleports EXCEPT ![t].pc = "requested"]
                                     ELSE teleports
    /\ UNCHANGED <<overflow_checks, teleport_id_count, awaiting_teleport,
                   position, rotation, tp_sent, tp_broadcast>>
    /\ UNCHANGED otherThanTp

\* let i = teleport_id_count.fetch_add(1); let teleport_id = i + 1;
FetchTeleportId(t) ==
    /\ calls[t].pc = "after"
    /\ LET f == fetch_add(teleport_id_count, 1)
           sum == add_i32(f.prev, 1, overflow_checks)
       IN  /\ teleport_id_count' = f.count
           /\ calls' = [calls EXCEPT ![t].pc = IF sum.panic THEN "panicked" ELSE "fetched",
                                     ![t].i = f.prev,
                                     ![t].id = IF sum.panic THEN 0 ELSE sum.value]
    /\ UNCHANGED <<overflow_checks, awaiting_teleport, position, rotation,
                   tp_sent, tp_started, teleports, tp_broadcast>>
    /\ UNCHANGED otherThanTp

\* entity.set_pos(position); entity.set_rotation(yaw, pitch);
SetPosition(t) ==
    /\ calls[t].pc = "fetched"
    /\ position' = calls[t].to
    /\ rotation' = <<calls[t].yaw, calls[t].pitch>>
    /\ calls' = [calls EXCEPT ![t].pc = "moved"]
    /\ UNCHANGED <<overflow_checks, teleport_id_count, awaiting_teleport,
                   tp_sent, tp_started, teleports, tp_broadcast>>
    /\ UNCHANGED otherThanTp

\* *self.awaiting_teleport.lock().await = Some((teleport_id.into(), position));
StoreAwaiting(t) ==
    /\ calls[t].pc = "moved"
    /\ awaiting_teleport' = SomeTeleport(calls[t].id, calls[t].to)
    /\ calls' = [calls EXCEPT ![t].pc = "stored"]
    /\ UNCHANGED <<overflow_checks, teleport_id_count, position, rotation,
                   tp_sent, tp_started, teleports, tp_broadcast>>
    /\ UNCHANGED otherThanTp

\* client.send_packet_now(&CPlayerPosition::new(..)).await
SendPlayerPosition(t) ==
    /\ calls[t].pc = "stored"
    /\ tp_sent' = Append(tp_sent,
                     CPlayerPosition(calls[t].id, calls[t].to, ZeroVelocity,
                                     calls[t].yaw, calls[t].pitch))
    /\ calls' = [calls EXCEPT ![t].pc = "done"]
    /\ UNCHANGED <<overflow_checks, teleport_id_count, awaiting_teleport,
                   position, rotation, tp_started, teleports, tp_broadcast>>
    /\ UNCHANGED otherThanTp

\* ------------------------------------------------------------------------
\* EntityBase::teleport for Player (pumpkin/src/entity/player/entity_base.rs),
\* the same-world branch.
\* ------------------------------------------------------------------------
CEntityPositionSync(pos, delta, yaw, pitch) ==
    [type |-> "EntityPositionSync", pos |-> pos, delta |-> delta,
     yaw |-> yaw, pitch |-> pitch]

\* An Option<f32> argument: None or Some(value).
None == <<>>
Some(v) == <<v>>
unwrap_or(opt, default) == IF opt = None THEN default ELSE opt[1]

\* teleport is called with the player's own world: yaw and pitch default to
\* the entity's, and PlayerTeleportEvent is dispatched; a subscriber may
\* cancel it or change its target.
Teleport(t) ==
    /\ teleports[t].pc \in {"idle", "cancelled", "done"}
    /\ calls[t].pc \in {"idle", "cancelled", "done"}
    /\ tp_started < MaxTeleports
    /\ \E to \in Positions, r \in Rotations, cancelled \in BOOLEAN :
       \E given \in BOOLEAN :
          LET yaw == IF given THEN Some(r[1]) ELSE None
              pitch == IF given THEN Some(r[2]) ELSE None
          IN
          teleports' = [teleports EXCEPT ![t] =
                           [pc |-> IF cancelled THEN "cancelled" ELSE "after",
                            to |-> to,
                            yaw |-> unwrap_or(yaw, rotation[1]),
                            pitch |-> unwrap_or(pitch, rotation[2])]]
    /\ tp_started' = tp_started + 1
    /\ UNCHANGED <<overflow_checks, teleport_id_count, awaiting_teleport,
                   position, rotation, tp_sent, calls, tp_broadcast>>
    /\ UNCHANGED otherThanTp

\* request_teleport has returned;
\* entity.world.broadcast_packet_except(&[id], &CEntityPositionSync::new(..)).await
BroadcastPositionSync(t) ==
    /\ teleports[t].pc = "requested"
    /\ calls[t].pc \in {"cancelled", "done"}
    /\ tp_broadcast' = Append(tp_broadcast,
                           CEntityPositionSync(teleports[t].to, ZeroVelocity,
                                               teleports[t].yaw, teleports[t].pitch))
    /\ teleports' = [teleports EXCEPT ![t].pc = "done"]
    /\ UNCHANGED <<overflow_checks, teleport_id_count, awaiting_teleport,
                   position, rotation, tp_sent, calls, tp_started>>
    /\ UNCHANGED otherThanTp

\* ========================================================================
\* Experience (pumpkin/src/entity/player/experience.rs)
\* ========================================================================
MaxLevel == 3
MaxAdded == 8
MaxXpOps == 4

\* pumpkin_util::math::experience: the points one level holds, the points
\* that reach a level from level 0, and the inverse of that sum.
points_in_level(level) ==
    IF level <= 15 THEN 2 * level + 7
    ELSE IF level <= 30 THEN 5 * level - 38
    ELSE 9 * level - 158

RECURSIVE points_to_level(_)
points_to_level(level) ==
    IF level <= 0 THEN 0
    ELSE points_to_level(level - 1) + points_in_level(level - 1)

RECURSIVE level_of_total(_, _)
level_of_total(total, level) ==
    IF total < points_to_level(level + 1) THEN level
    ELSE level_of_total(total, level + 1)

total_to_level_and_points(total) ==
    LET level == level_of_total(total, 0)
    IN  [level |-> level, points |-> total - points_to_level(level)]

\* An f32 in [0, 1] is kept as the fraction it was computed from.
clamp01(f) ==
    IF f[1] < 0 THEN <<0, 1>> ELSE IF f[1] > f[2] THEN <<1, 1>> ELSE f

progress_in_level(points, level) == clamp01(<<points, points_in_level(level)>>)

CSetExperience(progress, points, level) ==
    [type |-> "SetExperience", progress |-> progress, points |-> points,
     level |-> level]

Experience ==
    [level |-> experience_level, progress |-> experience_progress,
     points |-> experience_points, last_sent_xp |-> last_sent_xp, out |-> <<>>]

tick_experience(e) ==
    IF e.last_sent_xp # e.level
    THEN [e EXCEPT !.last_sent_xp = e.level,
                   !.out = Append(e.out, CSetExperience(clamp01(e.progress),
                                                        e.points, e.level))]
    ELSE e

set_experience(e, level, progress, points) ==
    LET stored == [e EXCEPT !.level = level, !.progress = clamp01(progress),
                            !.points = points, !.last_sent_xp = -1]
        ticked == tick_experience(stored)
    IN  [ticked EXCEPT !.out = Append(ticked.out,
                                 CSetExperience(clamp01(progress), points, level))]

\* (points as f32 * (new_max as f32 / current_max as f32)) as i32: the
\* truncated product; where the exact product is a whole number the f32
\* product can fall just short of it, and `short` says that it does.
scaled_points(points, new_max, current_max, short) ==
    LET exact == (points * new_max) \div current_max
    IN  IF short THEN exact - 1 ELSE exact

can_fall_short(points, new_max, current_max) ==
    /\ points > 0
    /\ new_max # current_max
    /\ (points * new_max) % current_max = 0

set_experience_level(e, new_level, keep_progress, short) ==
    LET points == IF keep_progress
                  THEN scaled_points(e.points, points_in_level(new_level),
                                     points_in_level(e.level), short)
                  ELSE e.points
    IN  set_experience(e, new_level, e.progress, points)

add_experience_levels(e, added_levels, short) ==
    set_experience_level(e, e.level + added_levels, TRUE, short)

set_experience_points(e, new_points) ==
    LET max_points == points_in_level(e.level)
    IN  IF new_points = e.points THEN e
        ELSE IF new_points < 0 \/ new_points > max_points THEN e
        ELSE set_experience(e, e.level, <<new_points, max_points>>, new_points)

add_experience_points(e, added_points) ==
    LET total_exp == points_to_level(e.level) + e.points
        new == total_to_level_and_points(total_exp + added_points)
    IN  set_experience(e, new.level, progress_in_level(new.points, new.level),
                       new.points)

\* NBTStorage for Player: XpTotal is all that is stored of the experience.
write_nbt(e) == points_to_level(e.level) + e.points

read_nbt(e, XpTotal) ==
    LET new == total_to_level_and_points(XpTotal)
    IN  [e EXCEPT !.level = new.level,
                  !.progress = progress_in_level(new.level, new.points),
                  !.points = new.points]

InitXp ==
    /\ experience_level = 0
    /\ experience_progress = <<0, 1>>
    /\ experience_points = 0
    /\ last_sent_xp = -1
    /\ xp_out = <<>>
    /\ xp_last = [op |-> "none", arg |-> 0]
    /\ xp_ops = 0

XpBecomes(e, op, arg) ==
    /\ xp_ops < MaxXpOps
    /\ experience_level' = e.level
    /\ experience_progress' = e.progress
    /\ experience_points' = e.points
    /\ last_sent_xp' = e.last_sent_xp
    /\ xp_out' = e.out
    /\ xp_last' = [op |-> op, arg |-> arg]
    /\ xp_ops' = xp_ops + 1
    /\ UNCHANGED <<coreVars, tpVars, decodeVars, regionVars, moreVars>>

Levels == 0..MaxLevel
Shorts(new_level) ==
    {FALSE} \cup {s \in {TRUE} : can_fall_short(experience_points,
                                                points_in_level(new_level),
                                                points_in_level(experience_level))}

AddExperiencePoints ==
    \E added \in 0..MaxAdded :
       /\ points_to_level(experience_level) + experience_points + added
             < points_to_level(MaxLevel + 1)
       /\ XpBecomes(add_experience_points(Experience, added), "add_points", added)

AddExperienceLevels ==
    \E added \in -MaxLevel..MaxLevel :
       /\ experience_level + added \in Levels
       /\ \E short \in Shorts(experience_level + added) :
             XpBecomes(add_experience_levels(Experience, added, short),
                       "add_levels", added)

SetExperienceLevel ==
    \E new_level \in Levels, keep_progress \in BOOLEAN :
       \E short \in IF keep_progress THEN Shorts(new_level) ELSE {FALSE} :
          XpBecomes(set_experience_level(Experience, new_level, keep_progress, short),
                    "set_level", new_level)

SetExperiencePoints ==
    \E new_points \in -1..(points_in_level(MaxLevel) + 1) :
       XpBecomes(set_experience_points(Experience, new_points),
                 "set_points", new_points)

\* The player's data is saved and read back into the player (a rejoin).
SaveAndLoad ==
    XpBecomes(read_nbt(Experience, write_nbt(Experience)), "nbt", 0)

\* ========================================================================
\* Chunk decoding (pumpkin-world/src/chunk/anvil_temp/chunk_format.rs)
\* ========================================================================
MaxSections == 2
MaxPalette == 33

DATA_VERSION == 4189
CHUNK_AREA == 256
SUBCHUNK_VOLUME == 4096
WORD_BITS == 64
MIN_BLOCK_BITS == 4

Max(a, b) == IF a > b THEN a ELSE b

\* The number of bits of a non-negative integer: 64 - leading_zeros.
RECURSIVE bit_len(_)
bit_len(n) == IF n <= 0 THEN 0 ELSE 1 + bit_len(n \div 2)

\* i64::leading_zeros: a negative value has its top bit set.
leading_zeros(n) == IF n < 0 THEN 0 ELSE WORD_BITS - bit_len(n)

block_bit_size_of_len(palette_len) == WORD_BITS - leading_zeros(palette_len)

block_bit_size(palette_len) ==
    Max(MIN_BLOCK_BITS, WORD_BITS - leading_zeros(palette_len - 1))

blocks_in_pallete(bits) == WORD_BITS \div bits

\* ChunkData::convert_index
convert_index(x, y, z) == y * CHUNK_AREA + z * 16 + x

\* to_chunk_data up to the section loop: the result it returns early with.
check_header(parses, status, data_version) ==
    IF ~parses THEN "DeserializationError"
    ELSE IF status # "Full" THEN "ChunkNotGenerated"
    ELSE IF data_version # DATA_VERSION THEN "OutdatedWorldFormat"
    ELSE "Ok"

\* The inner loop over the lanes i..lanes-1 of one data word, all lanes
\* holding the palette entry `entry`, without the early exit.
RECURSIVE decode_lanes_spilling(_, _, _, _)
decode_lanes_spilling(index, i, lanes, entry) ==
    IF i >= lanes THEN [index |-> index, writes |-> <<>>, broke |-> FALSE]
    ELSE LET rest == decode_lanes_spilling(index + 1, i + 1, lanes, entry)
             pos == convert_index(index % 16, index \div CHUNK_AREA,
                                  (index % CHUNK_AREA) \div 16)
         IN  [rest EXCEPT !.writes =
                 <<[index |-> index, pos |-> pos, entry |-> entry]>> \o rest.writes]

\* The inner loop over the lanes i..lanes-1 of one data word, all lanes
\* holding the palette entry `entry`: the write index after it, the cells
\* written, and whether 'block_loop was left.
RECURSIVE decode_lanes(_, _, _, _)
decode_lanes(index, i, lanes, entry) ==
    IF i >= lanes THEN [index |-> index, writes |-> <<>>, broke |-> FALSE]
    ELSE LET pos == convert_index(index % 16, index \div CHUNK_AREA,
                                  (index % CHUNK_AREA) \div 16)
             write == [index |-> index, pos |-> pos, entry |-> entry]
         IN  IF (index + 1) % SUBCHUNK_VOLUME = 0
             THEN [index |-> index + 1, writes |-> <<write>>, broke |-> TRUE]
             ELSE LET rest == decode_lanes(index + 1, i + 1, lanes, entry)
                  IN  [rest EXCEPT !.writes = <<write>> \o rest.writes]

NoSection ==
    [kind |-> "none", palette_len |-> 0, data_len |-> 0, bits |-> 0,
     lanes |-> 0, start |-> 0]

\* A section of the chunk's list: without block_states, with block_states
\* but no data array, or with a palette and a data array of data_len words.
Section(kind, palette_len, data_len, start) ==
    [kind |-> kind, palette_len |-> palette_len, data_len |-> data_len,
     bits |-> IF kind = "data" THEN block_bit_size(palette_len) ELSE 0,
     lanes |-> IF kind = "data"
               THEN blocks_in_pallete(block_bit_size(palette_len)) ELSE 0,
     start |-> start]

\* The words a well-formed data array holds for a palette.
FullLen(palette_len) ==
    LET lanes == blocks_in_pallete(block_bit_size(palette_len))
    IN  (SUBCHUNK_VOLUME + lanes - 1) \div lanes

\* Palette sizes of 4-bit, 5-bit and 6-bit lanes: 16, 12 and 10 blocks a word.
FullPalettes == {1, 17, 33}

\* Any palette with a one-word data array; the palettes above with a full
\* data array and with one word more.
SectionInputs ==
    {[kind |-> "no_states", palette_len |-> 1, data_len |-> 0],
     [kind |-> "no_data", palette_len |-> 1, data_len |-> 0]}
    \cup {[kind |-> "data", palette_len |-> p, data_len |-> n] :
             p \in 1..MaxPalette, n \in {1}}
    \cup {[kind |-> "data", palette_len |-> p, data_len |-> FullLen(p) + d] :
             p \in FullPalettes, d \in {0, 1}}

InitDecode ==
    /\ decode_pc = "start"
    /\ decode_result = "none"
    /\ block_index = 0
    /\ sections_read = 0
    /\ section = NoSection
    /\ word_no = 0
    /\ section_writes = 0
    /\ last_writes = <<>>

\* The chunk's NBT is parsed and its status and data version are checked.
StartDecode ==
    /\ decode_pc = "start"
    /\ \E parses \in BOOLEAN, status \in {"Full", "Light"},
          data_version \in {DATA_VERSION, DATA_VERSION - 1} :
          LET r == check_header(parses, status, data_version)
          IN  /\ decode_result' = IF r = "Ok" THEN "none" ELSE r
              /\ decode_pc' = IF r = "Ok" THEN "sections" ELSE "done"
    /\ UNCHANGED <<block_index, sections_read, section, word_no,
                   section_writes, last_writes>>
    /\ UNCHANGED <<coreVars, tpVars, xpVars, regionVars, moreVars>>

\* The section loop reaches the next section of the list.
NextSection ==
    /\ decode_pc = "sections"
    /\ sections_read < MaxSections
    /\ \E s \in SectionInputs :
          /\ section' = Section(s.kind, s.palette_len, s.data_len, block_index)
          /\ block_index' = IF s.kind = "no_data"
                            THEN block_index + SUBCHUNK_VOLUME
                            ELSE block_index
          /\ decode_pc' = IF s.kind = "data" /\ s.data_len > 0
                          THEN "words" ELSE "sections"
    /\ sections_read' = sections_read + 1
    /\ word_no' = 0
    /\ section_writes' = 0
    /\ last_writes' = <<>>
    /\ UNCHANGED decode_result
    /\ UNCHANGED <<coreVars, tpVars, xpVars, regionVars, moreVars>>

\* One word of the section's data array is consumed.
DecodeWord ==
    /\ decode_pc = "words"
    /\ \E entry \in {0, section.palette_len - 1} :
          LET r == decode_lanes(block_index, 0, section.lanes, entry)
          IN  /\ block_index' = r.index
              /\ last_writes' = r.writes
              /\ section_writes' = section_writes + Len(r.writes)
              /\ decode_pc' = IF r.broke \/ word_no + 1 = section.data_len
                              THEN "sections" ELSE "words"
    /\ word_no' = word_no + 1
    /\ UNCHANGED <<decode_result, sections_read, section>>
    /\ UNCHANGED <<coreVars, tpVars, xpVars, regionVars, moreVars>>

\* The list of sections is exhausted: Ok(chunk).
FinishDecode ==
    /\ decode_pc = "sections"
    /\ decode_pc' = "done"
    /\ decode_result' = "Ok"
    /\ UNCHANGED <<block_index, sections_read, section, word_no,
                   section_writes, last_writes>>
    /\ UNCHANGED <<coreVars, tpVars, xpVars, regionVars, moreVars>>

\* ========================================================================
\* Region files (pumpkin-world/src/chunk/anvil_temp/mod.rs, read_chunk)
\* ========================================================================
MaxCoord == 33

REGION_SHIFT == 5
REGION_SIZE == 32
TABLE_BYTES == 4096
SECTOR_BYTES == 4096
ENTRY_BYTES == 4
HEADER_BYTES == 5
COMPRESSION_CUSTOM == 127

\* `>>` on an i32 is the arithmetic shift: it rounds towards minus infinity.
shr(a, n) == a \div (2 ^ n)

\* `%` on an i32 truncates towards zero: the result has the sign of a.
rem(a, b) == IF a >= 0 THEN a % b ELSE -((-a) % b)

modulus_truncating(a, b) == rem(a, b)

\* let modulus = |a: i32, b: i32| ((a % b) + b) % b;
modulus(a, b) == rem(rem(a, b) + b, b)

\* Compression::try_from(u8)
Compression_try_from(value) ==
    IF value = 1 THEN "GZip"
    ELSE IF value = 2 THEN "ZLib"
    ELSE IF value = 3 THEN "None"
    ELSE IF value = 4 THEN "LZ4"
    ELSE IF value = COMPRESSION_CUSTOM THEN "Custom"
    ELSE "Err"

\* A region file as far as read_chunk looks at it: its length in bytes (-1:
\* there is no such file), the sector offset and sector count of the
\* chunk's location entry, the length field and the compression byte of the
\* chunk's header, and what decompressing and decoding its payload gives.
RegionFile(length, offset, count, hdr_len, scheme, content) ==
    [length |-> length, offset |-> offset, count |-> count,
     hdr_len |-> hdr_len, scheme |-> scheme, content |-> content]

NoChunkRead ==
    [result |-> "none", reads |-> <<>>, region |-> <<0, 0>>, chunk |-> <<0, 0>>,
     table_entry |-> 0, stage |-> 0]

read_chunk_unchecked_entry(file, at) ==
    LET region == <<shr(at[1], REGION_SHIFT), shr(at[2], REGION_SHIFT)>>
        chunk_x == modulus(at[1], REGION_SIZE)
        chunk_z == modulus(at[2], REGION_SIZE)
    IN  [result |-> IF file.length < 0 THEN "NotFound"
                    ELSE IF file.length < 2 * TABLE_BYTES THEN "IoError"
                    ELSE IF file.count = 0 THEN "Panic"
                    ELSE IF file.offset = 0 THEN "NotFound"
                    ELSE "IoError",
         reads |-> <<"location_table", "timestamp_table", "chunk">>,
         region |-> region, chunk |-> <<chunk_x, chunk_z>>,
         table_entry |-> (chunk_x + chunk_z * REGION_SIZE) * ENTRY_BYTES,
         stage |-> IF file.length < 2 * TABLE_BYTES THEN 0 ELSE 1]

\* AnvilWorldFormat::read_chunk: the Result it returns ("Panic" when it
\* does not return), the parts of the file it read, and its locals.
read_chunk(file, at) ==
    LET region == <<shr(at[1], REGION_SHIFT), shr(at[2], REGION_SHIFT)>>
        chunk_x == modulus(at[1], REGION_SIZE)
        chunk_z == modulus(at[2], REGION_SIZE)
        table_entry == (chunk_x + chunk_z * REGION_SIZE) * ENTRY_BYTES
        offset == file.offset * SECTOR_BYTES
        size == file.count * SECTOR_BYTES
        tables == <<"location_table", "timestamp_table">>
        out(result, reads, stage) ==
            [result |-> result, reads |-> reads, region |-> region,
             chunk |-> <<chunk_x, chunk_z>>, table_entry |-> table_entry,
             stage |-> stage]
    IN  IF file.length < 0 THEN out("NotFound", <<>>, 0)
        ELSE IF file.length < TABLE_BYTES
             THEN out("IoError", <<"location_table">>, 0)
        ELSE IF file.length < 2 * TABLE_BYTES THEN out("IoError", tables, 0)
        ELSE IF offset = 0 /\ size = 0 THEN out("NotFound", tables, 1)
        ELSE IF offset + size > file.length
             THEN out("IoError", Append(tables, "chunk"), 1)
        ELSE IF size < HEADER_BYTES THEN out("Panic", Append(tables, "chunk"), 1)
        ELSE IF Compression_try_from(file.scheme) = "Err"
             THEN out("CompressionError", Append(tables, "chunk"), 2)
        ELSE IF file.hdr_len = 0 \/ file.hdr_len - 1 > size - HEADER_BYTES
             THEN out("Panic", Append(tables, "chunk"), 2)
        ELSE IF Compression_try_from(file.scheme) = "Custom"
             THEN out("Panic", Append(tables, "chunk"), 2)
        ELSE out(file.content, Append(tables, "chunk"), 3)

\* A file is described only as far as read_chunk reads it.
Described(file) ==
    LET stage == read_chunk(file, <<0, 0>>).stage
    IN  /\ stage < 1 => file.offset = 0 /\ file.count = 0
        /\ stage < 2 => file.hdr_len = 0 /\ file.scheme = 0
        /\ stage < 3 => file.content = "none"
        /\ stage = 3 => file.content # "none"

RegionFiles ==
    {f \in {RegionFile(length, offset, count, hdr_len, scheme, content) :
               length \in {-1, 0, TABLE_BYTES, 2 * TABLE_BYTES, 3 * SECTOR_BYTES},
               offset \in {0, 2}, count \in {0, 1},
               hdr_len \in {0, 1, SECTOR_BYTES - 4, SECTOR_BYTES - 3},
               scheme \in {0, 2, COMPRESSION_CUSTOM},
               content \in {"none", "Ok", "CompressionError", "ChunkNotGenerated"}} :
        Described(f)}

Coords == (-MaxCoord)..MaxCoord
EdgeCoords == {-MaxCoord, -REGION_SIZE, -1, 0, 1, REGION_SIZE - 1, REGION_SIZE, MaxCoord}

IdleRegion ==
    /\ chunk_at = <<0, 0>>
    /\ region_file = RegionFile(-1, 0, 0, 0, 0, "none")
    /\ chunk_read = NoChunkRead

InitRegion ==
    /\ chunk_at \in Coords \X EdgeCoords
    /\ region_file = RegionFile(-1, 0, 0, 0, 0, "none")
    /\ chunk_read = NoChunkRead

\* read_chunk(at) is called with the region file as it is on disk.
ReadChunk ==
    /\ chunk_read.result = "none"
    /\ \E file \in RegionFiles :
          /\ region_file' = file
          /\ chunk_read' = read_chunk(file, chunk_at)
    /\ UNCHANGED chunk_at
    /\ UNCHANGED <<coreVars, tpVars, xpVars, decodeVars, moreVars>>

\* ========================================================================
\* Gamemode and abilities (pumpkin/src/entity/player/mod.rs, abilities.rs)
\* ========================================================================
MaxGamemodeOps == 2

GameModes == {"Survival", "Creative", "Adventure", "Spectator"}

Abilities(invuln, flying, allow_flying, creative) ==
    [invulnerable |-> invuln, flying |-> flying,
     allow_flying |-> allow_flying, creative |-> creative]

\* Abilities::set_for_gamemode; Creative leaves `flying` as it is.
set_for_gamemode(a, mode) ==
    CASE mode = "Creative" ->
             [a EXCEPT !.allow_flying = TRUE, !.creative = TRUE, !.invulnerable = TRUE]
      [] mode = "Spectator" ->
             [a EXCEPT !.flying = TRUE, !.allow_flying = TRUE, !.creative = FALSE,
                       !.invulnerable = TRUE]
      [] OTHER ->
             [a EXCEPT !.flying = FALSE, !.allow_flying = FALSE, !.creative = FALSE,
                       !.invulnerable = FALSE]

\* Player::send_abilities_update: the packet built from the abilities.
send_abilities_update(a, plat) ==
    IF plat = "Java"
    THEN [type |-> "PlayerAbilities",
          flags |-> (IF a.invulnerable THEN 1 ELSE 0) + (IF a.flying THEN 2 ELSE 0)
                    + (IF a.allow_flying THEN 4 ELSE 0) + (IF a.creative THEN 8 ELSE 0)]
    ELSE [type |-> "UpdateAbilities",
          abilities |->
              (IF a.invulnerable \/ a.creative THEN {"Invulnerable"} ELSE {})
              \cup (IF a.flying THEN {"Flying"} ELSE {})
              \cup (IF a.allow_flying THEN {"MayFly"} ELSE {})
              \cup (IF a.creative THEN {"OperatorCommands", "Teleport"} ELSE {})
              \cup {"AttackMobs", "AttackPlayers", "Build", "DoorsAndSwitches",
                    "Instabuild", "Mine"}]

\* matches!(gamemode, GameMode::Creative | GameMode::Spectator)
invulnerable_in(mode) == mode \in {"Creative", "Spectator"}

PlayerGm ==
    [gamemode |-> gamemode, abilities |-> abilities, invulnerable |-> invulnerable,
     out |-> <<>>, outcome |-> "returned"]

\* The 'after block of set_gamemode, run with the event's new_gamemode.
set_gamemode_after(p, mode, plat) ==
    LET a == set_for_gamemode(p.abilities, mode)
    IN  [p EXCEPT !.gamemode = mode,
                  !.abilities = a,
                  !.invulnerable = invulnerable_in(mode),
                  !.out = <<send_abilities_update(a, plat),
                            [type |-> "PlayerInfoUpdate", mode |-> mode],
                            [type |-> "GameEvent", mode |-> mode]>>]

\* set_for_gamemode is skipped: the abilities stay those of the old mode.
set_gamemode_keeps_abilities(p, mode, cancelled, new_gamemode, plat) ==
    IF p.gamemode = mode
    THEN [p EXCEPT !.outcome = "panicked"]
    ELSE IF cancelled
         THEN p
         ELSE [set_gamemode_after(p, new_gamemode, plat) EXCEPT
                  !.abilities = p.abilities]

\* Player::set_gamemode. assert_ne! panics when the mode is the current one;
\* otherwise PlayerGamemodeChangeEvent is dispatched, and a subscriber may
\* cancel it or replace its new_gamemode.
set_gamemode(p, mode, cancelled, new_gamemode, plat) ==
    IF p.gamemode = mode
    THEN [p EXCEPT !.outcome = "panicked"]
    ELSE IF cancelled
         THEN p
         ELSE set_gamemode_after(p, new_gamemode, plat)

NoGmCall ==
    [called |-> FALSE, mode |-> "Survival", cancelled |-> FALSE,
     new_gamemode |-> "Survival", outcome |-> "returned",
     before |-> [gamemode |-> "Survival",
                 abilities |-> Abilities(FALSE, FALSE, FALSE, FALSE),
                 invulnerable |-> FALSE]]

\* Player::new stores the gamemode and the entity's invulnerable flag; the
\* abilities are whatever read_nbt loaded.
InitGamemode ==
    /\ gamemode \in GameModes
    /\ abilities \in [invulnerable : BOOLEAN, flying : BOOLEAN,
                      allow_flying : BOOLEAN, creative : BOOLEAN]
    /\ invulnerable = invulnerable_in(gamemode)
    /\ gm_out = <<>>
    /\ gm_last = NoGmCall
    /\ gm_ops = 0

IdleGamemode ==
    /\ gamemode = "Survival"
    /\ abilities = Abilities(FALSE, FALSE, FALSE, FALSE)
    /\ invulnerable = FALSE
    /\ gm_out = <<>>
    /\ gm_last = NoGmCall
    /\ gm_ops = 0

otherThanGm == <<screenVars, levelVars, orderVars, laneVars, lastVars>>

\* One call of set_gamemode; the subscriber either keeps new_gamemode or
\* replaces it.
SetGamemode ==
    /\ gm_ops < MaxGamemodeOps
    /\ \E mode \in GameModes, cancelled \in BOOLEAN, new_gamemode \in GameModes :
          LET p == set_gamemode(PlayerGm, mode, cancelled, new_gamemode, platform)
          IN  /\ gamemode' = p.gamemode
              /\ abilities' = p.abilities
              /\ invulnerable' = p.invulnerable
              /\ gm_out' = p.out
              /\ gm_last' = [called |-> TRUE, mode |-> mode, cancelled |-> cancelled,
                             new_gamemode |-> new_gamemode, outcome |-> p.outcome,
                             before |-> [gamemode |-> gamemode, abilities |-> abilities,
                                         invulnerable |-> invulnerable]]
    /\ gm_ops' = gm_ops + 1
    /\ UNCHANGED <<coreVars, tpVars, xpVars, decodeVars, regionVars>>
    /\ UNCHANGED otherThanGm

\* ========================================================================
\* Screen handlers and the player's locks
\* (pumpkin/src/entity/player/screen_handler.rs, inventory.rs, actions.rs,
\*  abilities.rs, mod.rs)
\* ========================================================================
MaxScreenOps == 2     \* player operations started
MaxHandlers == 2      \* screen handlers created by factories

SYNC_ID_WRAP == 100   \* increment_screen_handler_sync_id: current_id % 100 + 1

\* Handler 0 is the player's own player_screen_handler; 1.. are the handlers
\* created by open_handled_screen.
PLAYER_HANDLER == 0
Handlers == 0..MaxHandlers

PlayerOps == {"tick", "drop_held_item", "on_slot_click", "open_handled_screen",
              "close_handled_screen", "on_handled_screen_closed",
              "send_abilities_update"}

FieldLocks == {"current_screen_handler", "held_item", "abilities"}

IdleTask ==
    [fn |-> "none", at |-> "idle", ret |-> "none", h |-> 0, local |-> 0,
     saw |-> 0, closed |-> FALSE, loaded |-> 0, new |-> 0]

\* The first statement of each operation.
FirstStep(op) ==
    CASE op = "drop_held_item" -> "held"
      [] op = "send_abilities_update" -> "abilities"
      [] OTHER -> "current"

CCloseContainer(sync_id) == [type |-> "CloseContainer", sync_id |-> sync_id]
COpenScreen(sync_id) == [type |-> "OpenScreen", sync_id |-> sync_id]

InitScreen ==
    /\ current_screen_handler = PLAYER_HANDLER
    /\ screen_handler_sync_id = 0
    /\ handler_sync = [h \in Handlers |-> 0]
    /\ handlers_made = 0
    /\ field_lock = [l \in FieldLocks |-> 0]
    /\ handler_lock = [h \in Handlers |-> 0]
    /\ screen_tasks = [t \in Tasks |-> IdleTask]
    /\ screen_out = <<>>
    /\ screen_ops = 0

otherThanScreen ==
    <<coreVars, tpVars, xpVars, decodeVars, regionVars, gmVars, levelVars,
      orderVars, laneVars, lastVars>>

At(t, fn, at) == screen_tasks[t].fn = fn /\ screen_tasks[t].at = at

\* The function returns: to open_handled_screen when it was called from
\* there, to the task's caller otherwise.
Return(t) ==
    IF screen_tasks[t].ret = "open_handled_screen"
    THEN [screen_tasks[t] EXCEPT !.fn = "open_handled_screen", !.at = "load",
                                 !.ret = "none"]
    ELSE IdleTask

\* A task calls one of the player's operations.
CallPlayerOp(t) ==
    /\ screen_tasks[t].at = "idle"
    /\ screen_ops < MaxScreenOps
    /\ \E op \in PlayerOps :
          screen_tasks' = [screen_tasks EXCEPT ![t] =
                              [IdleTask EXCEPT !.fn = op, !.at = FirstStep(op)]]
    /\ screen_ops' = screen_ops + 1
    /\ UNCHANGED <<current_screen_handler, screen_handler_sync_id, handler_sync,
                   handlers_made, field_lock, handler_lock, screen_out>>
    /\ UNCHANGED otherThanScreen

\* self.current_screen_handler.lock().await
LockCurrent(t) ==
    /\ screen_tasks[t].at = "current"
    /\ field_lock["current_screen_handler"] = 0
    /\ field_lock' = [field_lock EXCEPT !["current_screen_handler"] = t]
    /\ screen_tasks' = [screen_tasks EXCEPT ![t].at = "inner"]
    /\ UNCHANGED <<current_screen_handler, screen_handler_sync_id, handler_sync,
                   handlers_made, handler_lock, screen_out, screen_ops>>
    /\ UNCHANGED otherThanScreen

\* .lock().await on the handler the guard points to
LockInner(t) ==
    /\ screen_tasks[t].at = "inner"
    /\ handler_lock[current_screen_handler] = 0
    /\ handler_lock' = [handler_lock EXCEPT ![current_screen_handler] = t]
    /\ screen_tasks' = [screen_tasks EXCEPT ![t].at = "body",
                                            ![t].h = current_screen_handler]
    /\ UNCHANGED <<current_screen_handler, screen_handler_sync_id, handler_sync,
                   handlers_made, field_lock, screen_out, screen_ops>>
    /\ UNCHANGED otherThanScreen

\* Both guards of `current_screen_handler.lock().await.lock().await` drop.
DropGuards(t) ==
    /\ field_lock' = [field_lock EXCEPT !["current_screen_handler"] = 0]
    /\ handler_lock' = [handler_lock EXCEPT ![screen_tasks[t].h] = 0]

\* Player::tick: .send_content_updates().await; the guards drop at the `;`.
TickSendContentUpdates(t) ==
    /\ At(t, "tick", "body")
    /\ DropGuards(t)
    /\ screen_tasks' = [screen_tasks EXCEPT ![t] = IdleTask]
    /\ UNCHANGED <<current_screen_handler, screen_handler_sync_id, handler_sync,
                   handlers_made, screen_out, screen_ops>>
    /\ UNCHANGED otherThanScreen

\* Player::on_slot_click after its two locks: every path returns and drops
\* both guards.
SlotClick(t) ==
    /\ At(t, "on_slot_click", "body")
    /\ DropGuards(t)
    /\ screen_tasks' = [screen_tasks EXCEPT ![t] = IdleTask]
    /\ UNCHANGED <<current_screen_handler, screen_handler_sync_id, handler_sync,
                   handlers_made, screen_out, screen_ops>>
    /\ UNCHANGED otherThanScreen

\* Player::drop_held_item: binding.lock().await, then the is_empty test; a
\* non-empty stack is dropped into the world and decremented.
LockHeldItem(t) ==
    /\ At(t, "drop_held_item", "held")
    /\ field_lock["held_item"] = 0
    /\ \E empty \in BOOLEAN :
          IF empty
          THEN /\ screen_tasks' = [screen_tasks EXCEPT ![t] = IdleTask]
               /\ UNCHANGED field_lock
          ELSE /\ screen_tasks' = [screen_tasks EXCEPT ![t].at = "current"]
               /\ field_lock' = [field_lock EXCEPT !["held_item"] = t]
    /\ UNCHANGED <<current_screen_handler, screen_handler_sync_id, handler_sync,
                   handlers_made, handler_lock, screen_out, screen_ops>>
    /\ UNCHANGED otherThanScreen

\* Player::drop_held_item: get_slot_index and set_received_stack; the three
\* guards drop at the end of the function.
DropSetReceivedStack(t) ==
    /\ At(t, "drop_held_item", "body")
    /\ field_lock' = [field_lock EXCEPT !["current_screen_handler"] = 0,
                                        !["held_item"] = 0]
    /\ handler_lock' = [handler_lock EXCEPT ![screen_tasks[t].h] = 0]
    /\ screen_tasks' = [screen_tasks EXCEPT ![t] = IdleTask]
    /\ UNCHANGED <<current_screen_handler, screen_handler_sync_id, handler_sync,
                   handlers_made, screen_out, screen_ops>>
    /\ UNCHANGED otherThanScreen

\* Player::send_abilities_update: let abilities = &self.abilities.lock().await;
LockAbilities(t) ==
    /\ At(t, "send_abilities_update", "abilities")
    /\ field_lock["abilities"] = 0
    /\ field_lock' = [field_lock EXCEPT !["abilities"] = t]
    /\ screen_tasks' = [screen_tasks EXCEPT ![t].at = "send"]
    /\ UNCHANGED <<current_screen_handler, screen_handler_sync_id, handler_sync,
                   handlers_made, handler_lock, screen_out, screen_ops>>
    /\ UNCHANGED otherThanScreen

\* Player::send_abilities_update: enqueue_packet(..).await (send_game_packet
\* on Bedrock) with the guard still alive; it drops at the end of the arm.
SendAbilities(t) ==
    /\ At(t, "send_abilities_update", "send")
    /\ field_lock' = [field_lock EXCEPT !["abilities"] = 0]
    /\ screen_tasks' = [screen_tasks EXCEPT ![t] = IdleTask]
    /\ UNCHANGED <<current_screen_handler, screen_handler_sync_id, handler_sync,
                   handlers_made, handler_lock, screen_out, screen_ops>>
    /\ UNCHANGED otherThanScreen

\* Player::close_handled_screen: enqueue CCloseContainer with the locked
\* handler's sync_id; the guards are temporaries of the statement and drop
\* after the send. Then on_handled_screen_closed is called.
SendCloseContainer(t) ==
    /\ At(t, "close_handled_screen", "body")
    /\ screen_out' = Append(screen_out, CCloseContainer(handler_sync[screen_tasks[t].h]))
    /\ DropGuards(t)
    /\ screen_tasks' = [screen_tasks EXCEPT ![t].fn = "on_handled_screen_closed",
                                            ![t].at = "current",
                                            ![t].closed = TRUE]
    /\ UNCHANGED <<current_screen_handler, screen_handler_sync_id, handler_sync,
                   handlers_made, screen_ops>>
    /\ UNCHANGED otherThanScreen

\* Player::on_handled_screen_closed: .on_closed(self).await under both locks.
OnClosed(t) ==
    /\ At(t, "on_handled_screen_closed", "body")
    /\ DropGuards(t)
    /\ screen_tasks' = [screen_tasks EXCEPT ![t].at = "clone"]
    /\ UNCHANGED <<current_screen_handler, screen_handler_sync_id, handler_sync,
                   handlers_made, screen_out, screen_ops>>
    /\ UNCHANGED otherThanScreen

\* let current_screen_handler = self.current_screen_handler.lock().await.clone();
\* if !Arc::ptr_eq(&player_screen_handler, &current_screen_handler) { .. }
CloneCurrent(t) ==
    /\ At(t, "on_handled_screen_closed", "clone")
    /\ field_lock["current_screen_handler"] = 0
    /\ screen_tasks' = [screen_tasks EXCEPT
                           ![t].local = current_screen_handler,
                           ![t].at = IF current_screen_handler # PLAYER_HANDLER
                                     THEN "player" ELSE "store"]
    /\ UNCHANGED <<current_screen_handler, screen_handler_sync_id, handler_sync,
                   handlers_made, field_lock, handler_lock, screen_out, screen_ops>>
    /\ UNCHANGED otherThanScreen

\* player_screen_handler.lock().await
LockPlayerHandler(t) ==
    /\ At(t, "on_handled_screen_closed", "player")
    /\ handler_lock[PLAYER_HANDLER] = 0
    /\ handler_lock' = [handler_lock EXCEPT ![PLAYER_HANDLER] = t]
    /\ screen_tasks' = [screen_tasks EXCEPT ![t].at = "copy"]
    /\ UNCHANGED <<current_screen_handler, screen_handler_sync_id, handler_sync,
                   handlers_made, field_lock, screen_out, screen_ops>>
    /\ UNCHANGED otherThanScreen

\* .copy_shared_slots(current_screen_handler).await: reads the other handler
\* through its mutex while the player's handler is locked.
CopySharedSlots(t) ==
    /\ At(t, "on_handled_screen_closed", "copy")
    /\ handler_lock[screen_tasks[t].local] = 0
    /\ handler_lock' = [handler_lock EXCEPT ![PLAYER_HANDLER] = 0]
    /\ screen_tasks' = [screen_tasks EXCEPT ![t].at = "store"]
    /\ UNCHANGED <<current_screen_handler, screen_handler_sync_id, handler_sync,
                   handlers_made, field_lock, screen_out, screen_ops>>
    /\ UNCHANGED otherThanScreen

\* The handler that was current stays current.
closed_handler_keeps_current(current) == current

\* The handler that on_handled_screen_closed leaves current.
closed_handler(current) == PLAYER_HANDLER

\* *self.current_screen_handler.lock().await = self.player_screen_handler.clone();
StorePlayerHandler(t) ==
    /\ At(t, "on_handled_screen_closed", "store")
    /\ field_lock["current_screen_handler"] = 0
    /\ current_screen_handler' = closed_handler(current_screen_handler)
    /\ screen_tasks' = [screen_tasks EXCEPT ![t] = Return(t)]
    /\ UNCHANGED <<screen_handler_sync_id, handler_sync, handlers_made,
                   field_lock, handler_lock, screen_out, screen_ops>>
    /\ UNCHANGED otherThanScreen

\* Player::open_handled_screen: the is::<PlayerScreenHandler>() test; the
\* guards are temporaries of the condition. A handler of another type is
\* closed first.
CheckPlayerHandler(t) ==
    /\ At(t, "open_handled_screen", "body")
    /\ DropGuards(t)
    /\ screen_tasks' = [screen_tasks EXCEPT ![t] =
          IF screen_tasks[t].h # PLAYER_HANDLER
          THEN [@ EXCEPT !.fn = "close_handled_screen", !.at = "current",
                         !.ret = "open_handled_screen", !.saw = screen_tasks[t].h]
          ELSE [@ EXCEPT !.at = "load", !.saw = PLAYER_HANDLER]]
    /\ UNCHANGED <<current_screen_handler, screen_handler_sync_id, handler_sync,
                   handlers_made, screen_out, screen_ops>>
    /\ UNCHANGED otherThanScreen

\* increment_screen_handler_sync_id: let current_id = ..load(Relaxed);
LoadSyncId(t) ==
    /\ At(t, "open_handled_screen", "load")
    /\ screen_tasks' = [screen_tasks EXCEPT ![t].loaded = screen_handler_sync_id,
                                            ![t].at = "store_id"]
    /\ UNCHANGED <<current_screen_handler, screen_handler_sync_id, handler_sync,
                   handlers_made, field_lock, handler_lock, screen_out, screen_ops>>
    /\ UNCHANGED otherThanScreen

\* increment_screen_handler_sync_id: ..store(current_id % 100 + 1, Relaxed);
StoreSyncId(t) ==
    /\ At(t, "open_handled_screen", "store_id")
    /\ screen_handler_sync_id' = (screen_tasks[t].loaded % SYNC_ID_WRAP) + 1
    /\ screen_tasks' = [screen_tasks EXCEPT ![t].at = "create"]
    /\ UNCHANGED <<current_screen_handler, handler_sync, handlers_made,
                   field_lock, handler_lock, screen_out, screen_ops>>
    /\ UNCHANGED otherThanScreen

\* screen_handler_factory.create_screen_handler(sync_id, ..): Some(handler)
\* with the sync id loaded for it, or None.
CreateScreenHandler(t) ==
    /\ At(t, "open_handled_screen", "create")
    /\ \E some \in BOOLEAN :
          IF some /\ handlers_made < MaxHandlers
          THEN /\ handlers_made' = handlers_made + 1
               /\ handler_sync' = [handler_sync EXCEPT
                                      ![handlers_made + 1] = screen_handler_sync_id]
               /\ screen_tasks' = [screen_tasks EXCEPT ![t].new = handlers_made + 1,
                                                       ![t].at = "open"]
          ELSE /\ screen_tasks' = [screen_tasks EXCEPT ![t] = IdleTask]
               /\ UNCHANGED <<handlers_made, handler_sync>>
    /\ UNCHANGED <<current_screen_handler, screen_handler_sync_id,
                   field_lock, handler_lock, screen_out, screen_ops>>
    /\ UNCHANGED otherThanScreen

\* enqueue COpenScreen with the new handler's sync_id, then
\* on_screen_handler_opened; the new handler's mutex is not shared yet.
SendOpenScreen(t) ==
    /\ At(t, "open_handled_screen", "open")
    /\ screen_out' = Append(screen_out, COpenScreen(handler_sync[screen_tasks[t].new]))
    /\ screen_tasks' = [screen_tasks EXCEPT ![t].at = "set"]
    /\ UNCHANGED <<current_screen_handler, screen_handler_sync_id, handler_sync,
                   handlers_made, field_lock, handler_lock, screen_ops>>
    /\ UNCHANGED otherThanScreen

\* *self.current_screen_handler.lock().await = screen_handler;
SetCurrent(t) ==
    /\ At(t, "open_handled_screen", "set")
    /\ field_lock["current_screen_handler"] = 0
    /\ current_screen_handler' = screen_tasks[t].new
    /\ screen_tasks' = [screen_tasks EXCEPT ![t] = IdleTask]
    /\ UNCHANGED <<screen_handler_sync_id, handler_sync, handlers_made,
                   field_lock, handler_lock, screen_out, screen_ops>>
    /\ UNCHANGED otherThanScreen

\* ========================================================================
\* level.dat (pumpkin-world/src/chunk/anvil_temp/level_dat.rs)
\* ========================================================================
MaxLevelBase == 2     \* documents differ by a base value 0..MaxLevelBase

NUMBER_FIELDS == 17   \* numeric fields of the Data compound

\* A level.dat document: the Data compound under its NBT names, numeric
\* field i holding f[i].
Document(f, raining, thundering) ==
    [Data |->
       [BorderCenterX |-> f[1], BorderCenterZ |-> f[2],
        BorderDamagePerBlock |-> f[3], BorderSize |-> f[4],
        BorderSafeZone |-> f[5], BorderSizeLerpTarget |-> f[6],
        BorderWarningBlocks |-> f[7], BorderWarningTime |-> f[8],
        clearWeatherTime |-> f[9], DayTime |-> f[10],
        WorldGenSettings |-> [seed |-> f[11]],
        raining |-> raining, rainTime |-> f[12],
        SpawnX |-> f[13], SpawnY |-> f[14], SpawnZ |-> f[15],
        thundering |-> thundering, thunderTime |-> f[16], Time |-> f[17]]]

\* serde's Deserialize for LevelDat / Data / WorldGenSettings: each struct
\* field is read from the key its rename gives (PascalCase, or the explicit
\* rename).
LevelDat_deserialize(doc) ==
    [data |->
       [border_center_x |-> doc.Data.BorderCenterX,
        border_center_z |-> doc.Data.BorderCenterZ,
        border_damage_per_block |-> doc.Data.BorderDamagePerBlock,
        border_size |-> doc.Data.BorderSize,
        border_safe_zone |-> doc.Data.BorderSafeZone,
        border_size_lerp_target |-> doc.Data.BorderSizeLerpTarget,
        border_warning_blocks |-> doc.Data.BorderWarningBlocks,
        border_warning_time |-> doc.Data.BorderWarningTime,
        clear_weather_time |-> doc.Data.clearWeatherTime,
        day_time |-> doc.Data.DayTime,
        world_gen_settings |-> [seed |-> doc.Data.WorldGenSettings.seed],
        raining |-> doc.Data.raining,
        rain_time |-> doc.Data.rainTime,
        spawn_x |-> doc.Data.SpawnX,
        spawn_y |-> doc.Data.SpawnY,
        spawn_z |-> doc.Data.SpawnZ,
        thundering |-> doc.Data.thundering,
        thunder_time |-> doc.Data.thunderTime,
        time |-> doc.Data.Time]]

\* day_time and time are taken from each other's field.
WorldInfo_from_swapped(level) ==
    LET value == level.data IN
    [border_center |-> <<value.border_center_x, value.border_center_z>>,
     border_damage_per_block |-> value.border_damage_per_block,
     border_size |-> value.border_size,
     border_safe_zone |-> value.border_safe_zone,
     border_size_lerp_target |-> value.border_size_lerp_target,
     border_warning_blocks |-> value.border_warning_blocks,
     border_warning_time |-> value.border_warning_time,
     clear_weather_time |-> value.clear_weather_time,
     day_time |-> value.time,
     seed |-> value.world_gen_settings.seed,
     raining |-> value.raining,
     rain_time |-> value.rain_time,
     spawn |-> <<value.spawn_x, value.spawn_y, value.spawn_z>>,
     thundering |-> value.thundering,
     thunder_time |-> value.thunder_time,
     time |-> value.day_time]

\* impl From<LevelDat> for WorldInfo
WorldInfo_from(level) ==
    LET value == level.data IN
    [border_center |-> <<value.border_center_x, value.border_center_z>>,
     border_damage_per_block |-> value.border_damage_per_block,
     border_size |-> value.border_size,
     border_safe_zone |-> value.border_safe_zone,
     border_size_lerp_target |-> value.border_size_lerp_target,
     border_warning_blocks |-> value.border_warning_blocks,
     border_warning_time |-> value.border_warning_time,
     clear_weather_time |-> value.clear_weather_time,
     day_time |-> value.day_time,
     seed |-> value.world_gen_settings.seed,
     raining |-> value.raining,
     rain_time |-> value.rain_time,
     spawn |-> <<value.spawn_x, value.spawn_y, value.spawn_z>>,
     thundering |-> value.thundering,
     thunder_time |-> value.thunder_time,
     time |-> value.time]

\* The file <world>/level.dat: whether it can be opened (and why not),
\* whether it is gzip data, whether the NBT inside has every field of the
\* structs, and the document.
LevelFile(open, gzip, parses, doc) ==
    [open |-> open, gzip |-> gzip, parses |-> parses, doc |-> doc]

\* LevelDat::read_level_dat: open (?), read_to_end (?), decompress as GZip
\* (?), fastnbt::from_bytes (DeserializationError), info.into().
read_level_dat(file) ==
    IF file.open = "NotFound" THEN [ok |-> FALSE, err |-> "NotFound"]
    ELSE IF file.open # "Ok" THEN [ok |-> FALSE, err |-> "IoError"]
    ELSE IF ~file.gzip THEN [ok |-> FALSE, err |-> "CompressionError"]
    ELSE IF ~file.parses THEN [ok |-> FALSE, err |-> "DeserializationError"]
    ELSE [ok |-> TRUE, info |-> WorldInfo_from(LevelDat_deserialize(file.doc))]

\* Field values: every numeric field differs from every other one, so that
\* a swap shows; one field may carry a value of its own.
FieldValues ==
    LET plain(b) == [i \in 1..NUMBER_FIELDS |-> (b * 100) + i - 50]
    IN  {plain(b) : b \in 0..MaxLevelBase}
        \cup {[plain(b) EXCEPT ![i] = -7] : b \in 0..MaxLevelBase, i \in 1..NUMBER_FIELDS}

Documents ==
    {Document(f, r, t) : f \in FieldValues, r \in BOOLEAN, t \in BOOLEAN}

ZeroDocument == Document([i \in 1..NUMBER_FIELDS |-> 0], FALSE, FALSE)

LevelFiles ==
    {LevelFile("Ok", TRUE, TRUE, d) : d \in Documents}
    \cup {LevelFile("NotFound", FALSE, FALSE, ZeroDocument),
          LevelFile("Denied", FALSE, FALSE, ZeroDocument),
          LevelFile("Ok", FALSE, FALSE, ZeroDocument),
          LevelFile("Ok", TRUE, FALSE, ZeroDocument)}

NoLevelRead == [called |-> FALSE]

InitLevel ==
    /\ level_file \in LevelFiles
    /\ level_read = NoLevelRead

IdleLevel ==
    /\ level_file = LevelFile("NotFound", FALSE, FALSE, ZeroDocument)
    /\ level_read = NoLevelRead

otherThanLevel ==
    <<coreVars, tpVars, xpVars, decodeVars, regionVars, gmVars, screenVars,
      orderVars, laneVars, lastVars>>

\* One call of read_level_dat on the world directory.
ReadLevelDat ==
    /\ ~level_read.called
    /\ level_read' = [called |-> TRUE, result |-> read_level_dat(level_file)]
    /\ UNCHANGED level_file
    /\ UNCHANGED otherThanLevel

\* ========================================================================
\* The section list of a chunk (chunk_format.rs, the loop over
\* chunk_data.sections)
\* ========================================================================
MaxListLen == 3
MaxSectionY == 1

\* struct ChunkSection { y, block_states }: block_states absent, present
\* without a data array, or present with a full data array.
ChunkSection(y, kind) == [y |-> y, kind |-> kind]
SectionKinds == {"no_states", "no_data", "data"}
SectionYs == -1..MaxSectionY

\* The section lists a chunk file can hold: every Y at most once, in any
\* order (the deserializer keeps the order of the NBT list).
SectionLists ==
    {l \in UNION {[1..n -> {ChunkSection(y, k) : y \in SectionYs, k \in SectionKinds}] :
                     n \in 0..MaxListLen} :
        \A i, j \in 1..Len(l) : i # j => l[i].y # l[j].y}

\* `for section in chunk_data.sections` from element n on, block_index being
\* `index`: the dense cells [from, to) each decoded section fills. A section
\* without block_states is skipped, one without data advances block_index,
\* one with a full data array fills SUBCHUNK_VOLUME cells.
RECURSIVE decode_sections(_, _, _)
decode_sections(sections, n, index) ==
    IF n > Len(sections) THEN <<>>
    ELSE LET s == sections[n]
         IN  IF s.kind = "no_states"
             THEN decode_sections(sections, n + 1, index)
             ELSE IF s.kind = "no_data"
             THEN decode_sections(sections, n + 1, index + SUBCHUNK_VOLUME)
             ELSE <<[y |-> s.y, from |-> index, to |-> index + SUBCHUNK_VOLUME]>>
                  \o decode_sections(sections, n + 1, index + SUBCHUNK_VOLUME)

NotDecoded == <<[y |-> 0, from |-> -1, to |-> -1]>>

InitOrder ==
    /\ chunk_sections \in SectionLists
    /\ slabs = NotDecoded

IdleOrder ==
    /\ chunk_sections = <<>>
    /\ slabs = NotDecoded

\* to_chunk_data runs its section loop over the chunk's list.
DecodeSections ==
    /\ slabs = NotDecoded
    /\ slabs' = decode_sections(chunk_sections, 1, 0)
    /\ UNCHANGED chunk_sections
    /\ UNCHANGED <<coreVars, tpVars, xpVars, decodeVars, regionVars, gmVars,
                   screenVars, levelVars, laneVars, lastVars>>

\* ========================================================================
\* The lanes of one data word (chunk_format.rs, the loop over
\* 0..blocks_in_pallete)
\* ========================================================================
MaxLanePalette == 64

\* An i64 as its 64 bits, bit 0 the least significant, bit 63 the sign.
BitNos == 0..(WORD_BITS - 1)
ZeroWord == [b \in BitNos |-> 0]
OnesWord == [b \in BitNos |-> 1]
MinWord == [b \in BitNos |-> IF b = WORD_BITS - 1 THEN 1 ELSE 0]
AlternatingWord == [b \in BitNos |-> b % 2]

\* The word whose 4-bit lanes, from the least significant, are `nibbles`.
FromNibbles(nibbles) ==
    [b \in BitNos |-> (nibbles[(b \div 4) + 1] \div (2 ^ (b % 4))) % 2]

ExampleWord == FromNibbles(<<1, 0, 0, 2, 0, 0, 0, 0, 0, 0, 0, 0, 0, 0, 0, 0>>)
NegativeExampleWord == FromNibbles(<<1, 0, 0, 2, 0, 0, 0, 0, 0, 0, 0, 0, 0, 0, 0, 8>>)

\* `>>` of i64: the arithmetic shift, which fills with the sign bit.
shr_i64(word, s) ==
    [b \in BitNos |-> IF b + s < WORD_BITS THEN word[b + s] ELSE word[WORD_BITS - 1]]

\* (1 << block_bit_size) - 1 as an i64, for block_bit_size < 64.
mask_of(bits) == [b \in BitNos |-> IF b < bits THEN 1 ELSE 0]

\* `&` of i64.
bitand(a, m) == [b \in BitNos |-> a[b] * m[b]]

RECURSIVE low_bits_value(_, _)
low_bits_value(word, n) ==
    IF n = 0 THEN 0 ELSE low_bits_value(word, n - 1) + word[n - 1] * (2 ^ (n - 1))

\* `index as usize`, as far as indexing a palette goes: the value when it is
\* below 2^31, and a value beyond any palette otherwise.
as_usize(word) ==
    IF \E b \in 31..(WORD_BITS - 1) : word[b] = 1 THEN I32_MAX
    ELSE low_bits_value(word, 31)

\* The lane index taken from the other end of the word.
lane_index_from_top(word, i, bits) ==
    as_usize(bitand(shr_i64(word, (blocks_in_pallete(bits) - 1 - i) * bits), mask_of(bits)))

\* let index = (block >> (i * block_bit_size)) & mask;
lane_index(word, i, bits) == as_usize(bitand(shr_i64(word, i * bits), mask_of(bits)))

\* The pallete vector of a section with n palette entries, as block state ids.
Pallete(n) == [j \in 1..n |-> 100 + j]

LaneWords ==
    {ZeroWord, OnesWord, MinWord, AlternatingWord, ExampleWord, NegativeExampleWord}
LanePalettes == {1, 3, 16, 17, 32, 33, MaxLanePalette}

InitLane ==
    /\ lane_word \in LaneWords
    /\ lane_palette \in {Pallete(n) : n \in LanePalettes}
    /\ lane_i = 0
    /\ lane_decoded = <<>>
    /\ lane_panicked = FALSE

IdleLane ==
    /\ lane_word = ZeroWord
    /\ lane_palette = Pallete(1)
    /\ lane_i = 0
    /\ lane_decoded = <<>>
    /\ lane_panicked = FALSE

\* One turn of `for i in 0..blocks_in_pallete` on the first word of a
\* section: the lane is extracted and looked up in the pallete; an index
\* outside the pallete panics.
DecodeLane ==
    /\ ~lane_panicked
    /\ LET bits == block_bit_size(Len(lane_palette))
           index == lane_index(lane_word, lane_i, bits)
       IN  /\ lane_i < blocks_in_pallete(bits)
           /\ IF index < Len(lane_palette)
              THEN /\ lane_decoded' = Append(lane_decoded, lane_palette[index + 1])
                   /\ lane_i' = lane_i + 1
                   /\ UNCHANGED lane_panicked
              ELSE /\ lane_panicked' = TRUE
                   /\ UNCHANGED <<lane_decoded, lane_i>>
    /\ UNCHANGED <<lane_word, lane_palette>>
    /\ UNCHANGED <<coreVars, tpVars, xpVars, decodeVars, regionVars, gmVars,
                   screenVars, levelVars, orderVars, lastVars>>

\* ========================================================================
\* Player::teleport_world (pumpkin/src/entity/player/teleport.rs) and
\* Player::unload_watched_chunks (pumpkin/src/entity/player/world.rs)
\* ========================================================================
MaxRadius == 2

UNINIT_RADIUS == 1
DEFAULT_PITCH == 10
SPAWN_ANGLE == 180

\* Cylindrical { center, view_distance }
Cylindrical(center, radius) == [center |-> center, radius |-> radius]

\* Cylindrical::all_chunks_within: the chunks around the center within the
\* view distance.
all_chunks_within(c) ==
    {<<x, z>> \in ((c.center[1] - c.radius)..(c.center[1] + c.radius))
                  \X ((c.center[2] - c.radius)..(c.center[2] + c.radius)) :
        (x - c.center[1]) * (x - c.center[1]) + (z - c.center[2]) * (z - c.center[2])
           <= c.radius * c.radius}

\* Level::mark_chunks_as_not_watched: "Decrement the value of watched
\* chunks"; the chunks returned are those left with no watchers.
mark_chunks_as_not_watched(watchers, chunks) ==
    LET after == [c \in DOMAIN watchers |->
                     IF c \in chunks /\ watchers[c] > 0
                     THEN watchers[c] - 1 ELSE watchers[c]]
    IN  [watchers |-> after,
         chunks_to_clean |-> {c \in chunks \cap DOMAIN watchers : after[c] = 0}]

\* Level::clean_chunks: "Remove chunks with no watchers from the cache".
clean_chunks(watchers, chunks_to_clean) ==
    [c \in DOMAIN watchers \ chunks_to_clean |-> watchers[c]]

\* A set of chunks as the sequence the loop visits.
RECURSIVE in_order(_)
in_order(chunks) ==
    IF chunks = {} THEN <<>>
    ELSE LET c == CHOOSE c \in chunks :
                     \A d \in chunks : c[1] < d[1] \/ (c[1] = d[1] /\ c[2] <= d[2])
         IN  <<c>> \o in_order(chunks \ {c})

Enqueued(packet) == [how |-> "enqueue_packet", packet |-> packet]
SentNow(packet) == [how |-> "send_packet_now", packet |-> packet]

CUnloadChunk(chunk) == [type |-> "UnloadChunk", x |-> chunk[1], z |-> chunk[2]]

\* Player::unload_watched_chunks(world): the player, the level's watchers
\* and the packets enqueued.
unload_watched_chunks(p, watchers) ==
    LET radial_chunks == all_chunks_within(p.watched_section)
        marked == mark_chunks_as_not_watched(watchers, radial_chunks)
        to_clean == in_order(marked.chunks_to_clean)
    IN  [player |-> [p EXCEPT !.watched_section =
                                 Cylindrical(<<0, 0>>, UNINIT_RADIUS)],
         watchers |-> clean_chunks(marked.watchers, marked.chunks_to_clean),
         out |-> [i \in 1..Len(to_clean) |-> Enqueued(CUnloadChunk(to_clean[i]))]]

\* Player::new(client, gameprofile, config, world, gamemode): the fields
\* the world change involves.
Player_new(world) ==
    [world |-> world, awaiting_teleport |-> NoTeleport, teleport_id_count |-> 0,
     pos |-> Origin, last_pos |-> Origin, rotation |-> <<0, 0>>,
     client_loaded |-> FALSE, client_loaded_timeout |-> CLIENT_LOADED_TIMEOUT,
     watched_section |-> Cylindrical(<<0, 0>>, UNINIT_RADIUS)]

NoPlayer == [some |-> FALSE, player |-> Player_new("none")]
SomePlayer(p) == [some |-> TRUE, player |-> p]

SELF_UUID == "uuid"

\* The cylinders a player in the old world watches.
WatchedSections ==
    {Cylindrical(center, radius) :
        center \in {<<0, 0>>, <<4, 4>>}, radius \in 1..MaxRadius}

NoEvent == [position |-> Origin, yaw |-> 0, pitch |-> 0]

\* A player that has joined the old world, with the chunks it watches loaded;
\* some of them are watched by another player as well.
InitChangeWorld ==
    /\ tw_pc = "idle"
    /\ tw_event = NoEvent
    /\ old_roster \in {{SELF_UUID}, {SELF_UUID, "other"}}
    /\ new_roster = NoPlayer
    /\ \E cyl \in WatchedSections, loaded \in BOOLEAN :
          /\ self_player = [Player_new("old_world") EXCEPT
                               !.watched_section = cyl,
                               !.pos = "A", !.last_pos = "A",
                               !.client_loaded = loaded]
          /\ tw_watched = all_chunks_within(cyl)
          /\ \E shared \in {{}, {cyl.center}, all_chunks_within(cyl)} :
                chunk_watchers =
                    [c \in all_chunks_within(cyl) |->
                        IF "other" \in old_roster /\ c \in shared THEN 2 ELSE 1]
    /\ tw_sent = <<>>

IdleChangeWorld ==
    /\ tw_pc = "idle"
    /\ tw_event = NoEvent
    /\ old_roster = {}
    /\ new_roster = NoPlayer
    /\ self_player = Player_new("old_world")
    /\ chunk_watchers = <<>>
    /\ tw_sent = <<>>
    /\ tw_watched = {}

otherThanTw ==
    <<coreVars, tpVars, xpVars, decodeVars, regionVars, gmVars, screenVars,
      levelVars, orderVars, laneVars, xpTaskVars>>

\* teleport_world is called and PlayerChangeWorldEvent is dispatched: yaw
\* defaults to the new world's spawn angle and pitch to 10; a subscriber may
\* cancel the event or change its position.
TeleportWorld ==
    /\ tw_pc = "idle"
    /\ \E target \in Positions, yaw \in {None, Some(90)},
          pitch \in {None, Some(45)}, cancelled \in BOOLEAN :
          /\ tw_event' = [position |-> target,
                          yaw |-> unwrap_or(yaw, SPAWN_ANGLE),
                          pitch |-> unwrap_or(pitch, DEFAULT_PITCH)]
          /\ tw_pc' = IF cancelled THEN "cancelled" ELSE "after"
    /\ UNCHANGED <<old_roster, new_roster, self_player, chunk_watchers, tw_sent,
                   tw_watched>>
    /\ UNCHANGED otherThanTw

\* self.set_client_loaded(false); current_world.remove_player(self, false);
\* new_world.players.write().await.insert(uuid, Arc::new(Self::new(..)))
ChangeRoster ==
    /\ tw_pc = "after"
    /\ self_player' = [self_player EXCEPT
                          !.client_loaded = FALSE,
                          !.client_loaded_timeout = CLIENT_LOADED_TIMEOUT]
    /\ old_roster' = old_roster \ {SELF_UUID}
    /\ new_roster' = SomePlayer(Player_new("new_world"))
    /\ tw_pc' = "moved"
    /\ UNCHANGED <<tw_event, chunk_watchers, tw_sent, tw_watched>>
    /\ UNCHANGED otherThanTw

\* self.unload_watched_chunks(&current_world).await
UnloadWatchedChunks ==
    /\ tw_pc = "moved"
    /\ LET r == unload_watched_chunks(self_player, chunk_watchers)
       IN  /\ self_player' = r.player
           /\ chunk_watchers' = r.watchers
           /\ tw_sent' = tw_sent \o r.out
    /\ tw_pc' = "unloaded"
    /\ UNCHANGED <<tw_event, old_roster, new_roster, tw_watched>>
    /\ UNCHANGED otherThanTw

\* self.client.send_packet_now(&CRespawn::new(..)).await, the death location
\* being last_pos in the world `self` belongs to.
SendRespawn ==
    /\ tw_pc = "unloaded"
    /\ tw_sent' = Append(tw_sent,
                     SentNow([type |-> "Respawn", dimension |-> "new_world",
                              death_dimension |-> self_player.world,
                              death_location |-> self_player.last_pos]))
    /\ tw_pc' = "respawned"
    /\ UNCHANGED <<tw_event, old_roster, new_roster, self_player, chunk_watchers,
                   tw_watched>>
    /\ UNCHANGED otherThanTw

\* self.send_permission_lvl_update().await;
\* self.clone().request_teleport(position, yaw, pitch).await, whose
\* PlayerTeleportEvent a subscriber may cancel or retarget.
ResumeTeleport ==
    /\ tw_pc = "respawned"
    /\ \E to \in {tw_event.position, "B"}, cancelled \in BOOLEAN :
          LET f == fetch_add(self_player.teleport_id_count, 1)
              id == wrapping_add(f.prev, 1)
          IN  IF cancelled
              THEN /\ tw_sent' = Append(tw_sent, Enqueued([type |-> "EntityEvent"]))
                   /\ UNCHANGED self_player
              ELSE /\ self_player' =
                          [self_player EXCEPT
                              !.teleport_id_count = f.count,
                              !.pos = to,
                              !.rotation = <<tw_event.yaw, tw_event.pitch>>,
                              !.awaiting_teleport = SomeTeleport(id, to)]
                   /\ tw_sent' = tw_sent
                         \o <<Enqueued([type |-> "EntityEvent"]),
                              SentNow(CPlayerPosition(id, to, ZeroVelocity,
                                                      tw_event.yaw, tw_event.pitch))>>
    /\ tw_pc' = "teleported"
    /\ UNCHANGED <<tw_event, old_roster, new_roster, chunk_watchers, tw_watched>>
    /\ UNCHANGED otherThanTw

\* last_pos.store(position); send_abilities_update; the selected slot; the
\* player's screen handler is opened; send_health; send_world_info.
FinishTeleportWorld ==
    /\ tw_pc = "teleported"
    /\ self_player' = [self_player EXCEPT !.last_pos = tw_event.position]
    /\ tw_sent' = tw_sent
          \o <<Enqueued([type |-> "PlayerAbilities"]),
               Enqueued([type |-> "SetSelectedSlot"]),
               Enqueued([type |-> "SetHealth"]),
               Enqueued([type |-> "WorldInfo"])>>
    /\ tw_pc' = "done"
    /\ UNCHANGED <<tw_event, old_roster, new_roster, chunk_watchers, tw_watched>>
    /\ UNCHANGED otherThanTw

\* ========================================================================
\* add_experience_points running in several tasks
\* (pumpkin/src/entity/player/experience.rs)
\* ========================================================================
IdleXpCall == [pc |-> "idle", added |-> 0, level |-> 0, points |-> 0,
               new_level |-> 0, new_points |-> 0]

IdleXpTasks == xp_tasks = [t \in Tasks |-> IdleXpCall]

IdleLast == IdleChangeWorld /\ IdleXpTasks

otherThanXpTask ==
    <<coreVars, tpVars, decodeVars, regionVars, gmVars, screenVars, levelVars,
      orderVars, laneVars, twVars>>

\* add_experience_points is called in task t:
\* let current_level = self.experience_level.load(Relaxed);
LoadLevel(t) ==
    /\ xp_tasks[t].pc = "idle"
    /\ \E added_points \in 0..MaxAdded :
          xp_tasks' = [xp_tasks EXCEPT ![t].pc = "level_loaded",
                                       ![t].added = added_points,
                                       ![t].level = experience_level]
    /\ UNCHANGED xpVars
    /\ UNCHANGED otherThanXpTask

\* let current_points = self.experience_points.load(Relaxed); and the new
\* level and points computed from the two values loaded.
LoadPoints(t) ==
    /\ xp_tasks[t].pc = "level_loaded"
    /\ LET total_exp == points_to_level(xp_tasks[t].level) + experience_points
           new == total_to_level_and_points(total_exp + xp_tasks[t].added)
       IN  xp_tasks' = [xp_tasks EXCEPT ![t].pc = "computed",
                                        ![t].points = experience_points,
                                        ![t].new_level = new.level,
                                        ![t].new_points = new.points]
    /\ UNCHANGED xpVars
    /\ UNCHANGED otherThanXpTask

\* set_experience: self.experience_level.store(level, Relaxed);
StoreLevel(t) ==
    /\ xp_tasks[t].pc = "computed"
    /\ experience_level' = xp_tasks[t].new_level
    /\ xp_tasks' = [xp_tasks EXCEPT ![t].pc = "level_stored"]
    /\ UNCHANGED <<experience_progress, experience_points, last_sent_xp, xp_out,
                   xp_last, xp_ops>>
    /\ UNCHANGED otherThanXpTask

\* self.experience_progress.store(progress.clamp(0.0, 1.0));
StoreProgress(t) ==
    /\ xp_tasks[t].pc = "level_stored"
    /\ experience_progress' =
           clamp01(progress_in_level(xp_tasks[t].new_points, xp_tasks[t].new_level))
    /\ xp_tasks' = [xp_tasks EXCEPT ![t].pc = "progress_stored"]
    /\ UNCHANGED <<experience_level, experience_points, last_sent_xp, xp_out,
                   xp_last, xp_ops>>
    /\ UNCHANGED otherThanXpTask

\* self.experience_points.store(points, Relaxed);
StorePoints(t) ==
    /\ xp_tasks[t].pc = "progress_stored"
    /\ experience_points' = xp_tasks[t].new_points
    /\ xp_tasks' = [xp_tasks EXCEPT ![t].pc = "points_stored"]
    /\ UNCHANGED <<experience_level, experience_progress, last_sent_xp, xp_out,
                   xp_last, xp_ops>>
    /\ UNCHANGED otherThanXpTask

\* self.last_sent_xp.store(-1, Relaxed); self.tick_experience().await; and
\* the CSetExperience packet of the call is enqueued.
NotifyExperience(t) ==
    /\ xp_tasks[t].pc = "points_stored"
    /\ LET ticked == tick_experience([Experience EXCEPT !.last_sent_xp = -1,
                                                        !.out = xp_out])
           progress == progress_in_level(xp_tasks[t].new_points,
                                         xp_tasks[t].new_level)
       IN  /\ last_sent_xp' = ticked.last_sent_xp
           /\ xp_out' = Append(ticked.out,
                               CSetExperience(clamp01(progress),
                                              xp_tasks[t].new_points,
                                              xp_tasks[t].new_level))
    /\ xp_tasks' = [xp_tasks EXCEPT ![t].pc = "done"]
    /\ UNCHANGED <<experience_level, experience_progress, experience_points,
                   xp_last, xp_ops>>
    /\ UNCHANGED otherThanXpTask

\* ========================================================================
\* Specifications
\* ========================================================================

\* A subsystem that a specification does not exercise rests in one state.
IdleConn ==
    /\ cfg = [online_mode |-> FALSE, proxy |-> FALSE, velocity |-> FALSE,
              bungeecord |-> FALSE, compression |-> FALSE, resource_pack |-> FALSE]
    /\ connection_state = "HandShake"
    /\ closed = FALSE
    /\ panicked = FALSE
    /\ protocol_version = 0
    /\ server_address = ""
    /\ gameprofile = NoProfile
    /\ encryption = FALSE
    /\ compression = FALSE
    /\ make_player = FALSE
    /\ player_config = FALSE
    /\ brand = FALSE
    /\ sent = <<>>
    /\ kicks = <<>>
    /\ last = NoPacket
    /\ handled = 0

IdlePlayer == InitPlayer /\ platform = "Java"

IdleCache ==
    full_cache = <<>> /\ last_seen = <<>> /\ cache_ops = 0 /\ indexed = NoIndexed

IdleWorld ==
    /\ session_lock = TRUE
    /\ level_dat = TRUE
    /\ loaders = [l \in 1..MaxLoaders |-> "None"]

IdleTeleport ==
    /\ overflow_checks = FALSE
    /\ teleport_id_count = 0
    /\ awaiting_teleport = NoTeleport
    /\ position = Origin
    /\ rotation = <<0, 0>>
    /\ tp_sent = <<>>
    /\ calls = [t \in Tasks |-> IdleCall]
    /\ tp_started = 0
    /\ teleports = [t \in Tasks |-> IdleTeleportCall]
    /\ tp_broadcast = <<>>

IdleMore ==
    IdleGamemode /\ InitScreen /\ IdleLevel /\ IdleOrder /\ IdleLane /\ IdleLast

IdleRest == IdleTeleport /\ InitXp /\ InitDecode /\ IdleRegion /\ IdleMore

\* One client connection from accept to Play or close.
Init == InitConn /\ IdlePlayer /\ IdleCache /\ IdleWorld /\ IdleRest
Next == NextConn
Spec == Init /\ [][Next]_vars

\* One player's chunk streaming: ticks, chunk pushes, acknowledgments.
InitChunk == IdleConn /\ InitPlayerLoaded /\ IdleCache /\ IdleWorld /\ IdleRest
NextChunk == Tick \/ PushChunk \/ HandleAck
SpecChunk == InitChunk /\ [][NextChunk]_vars

\* One player's keep-alive: ticks as the clock advances, and the client's
\* answers. The server ticks every player again and again and the clock
\* keeps running.
InitKeepAlive == IdleConn /\ InitPlayer /\ IdleCache /\ IdleWorld /\ IdleRest
NextKeepAlive == Tick \/ AdvanceTime \/ HandleKeepAlive
SpecKeepAlive ==
    /\ InitKeepAlive
    /\ [][NextKeepAlive]_vars
    /\ WF_vars(Tick)
    /\ WF_vars(AdvanceTime)

\* One signature cache under add_seen_signature and cache_signatures.
InitCacheSpec == IdleConn /\ IdlePlayer /\ InitCache /\ IdleWorld /\ IdleRest
NextCache == AddSeenSignature \/ CacheSignatures \/ IndexedFor
SpecCache == InitCacheSpec /\ [][NextCache]_vars

\* One world directory and the loaders opened on it.
InitWorldSpec == IdleConn /\ IdlePlayer /\ IdleCache /\ InitWorld /\ IdleRest
NextWorld == LoadWorld \/ DropLoader \/ ChangeDirectory
SpecWorld == InitWorldSpec /\ [][NextWorld]_vars

\* One player's same-world teleports, requested from concurrent tasks.
InitTeleportSpec ==
    IdleConn /\ IdlePlayer /\ IdleCache /\ IdleWorld /\ InitTeleport /\ InitXp
    /\ InitDecode /\ IdleRegion /\ IdleMore
NextTeleport ==
    \/ \E t \in Tasks : RequestTeleport(t)
    \/ \E t \in Tasks : FetchTeleportId(t)
    \/ \E t \in Tasks : SetPosition(t)
    \/ \E t \in Tasks : StoreAwaiting(t)
    \/ \E t \in Tasks : SendPlayerPosition(t)
SpecTeleport == InitTeleportSpec /\ [][NextTeleport]_vars

\* One player's same-world teleports through EntityBase::teleport and
\* request_teleport, requested from concurrent tasks.
InitTeleportEvent ==
    IdleConn /\ IdlePlayer /\ IdleCache /\ IdleWorld /\ InitTeleport /\ InitXp
    /\ InitDecode /\ IdleRegion /\ IdleMore
    /\ teleport_id_count = 0 /\ overflow_checks = FALSE
NextTeleportEvent ==
    \/ \E t \in Tasks : Teleport(t)
    \/ \E t \in Tasks : RequestTeleport(t)
    \/ \E t \in Tasks : FetchTeleportId(t)
    \/ \E t \in Tasks : SetPosition(t)
    \/ \E t \in Tasks : StoreAwaiting(t)
    \/ \E t \in Tasks : SendPlayerPosition(t)
    \/ \E t \in Tasks : BroadcastPositionSync(t)
SpecTeleportEvent == InitTeleportEvent /\ [][NextTeleportEvent]_vars

\* One player's experience under the experience operations and a save/load.
InitXpSpec ==
    IdleConn /\ IdlePlayer /\ IdleCache /\ IdleWorld /\ IdleTeleport /\ InitXp
    /\ InitDecode /\ IdleRegion /\ IdleMore
NextXp ==
    \/ AddExperiencePoints
    \/ AddExperienceLevels
    \/ SetExperienceLevel
    \/ SetExperiencePoints
    \/ SaveAndLoad
SpecXp == InitXpSpec /\ [][NextXp]_vars

\* One call of to_chunk_data on a chunk read from a region file.
InitDecodeSpec ==
    IdleConn /\ IdlePlayer /\ IdleCache /\ IdleWorld /\ IdleTeleport /\ InitXp
    /\ InitDecode /\ IdleRegion /\ IdleMore
NextDecode == StartDecode \/ NextSection \/ DecodeWord \/ FinishDecode
SpecDecode == InitDecodeSpec /\ [][NextDecode]_vars

\* One call of read_chunk for a chunk position and a region file.
InitRegionSpec ==
    IdleConn /\ IdlePlayer /\ IdleCache /\ IdleWorld /\ IdleTeleport /\ InitXp
    /\ InitDecode /\ InitRegion /\ IdleMore
NextRegion == ReadChunk
SpecRegion == InitRegionSpec /\ [][NextRegion]_vars

\* One player's gamemode changes.
InitGamemodeSpec ==
    IdleConn /\ InitPlayer /\ IdleCache /\ IdleWorld /\ IdleTeleport /\ InitXp
    /\ InitDecode /\ IdleRegion /\ InitGamemode /\ InitScreen /\ IdleLevel
    /\ IdleOrder /\ IdleLane /\ IdleLast
NextGamemode == SetGamemode
SpecGamemode == InitGamemodeSpec /\ [][NextGamemode]_vars

\* One player's screen-handler, inventory and abilities operations, called
\* from concurrent tasks.
InitScreenSpec ==
    IdleConn /\ IdlePlayer /\ IdleCache /\ IdleWorld /\ IdleTeleport /\ InitXp
    /\ InitDecode /\ IdleRegion /\ IdleGamemode /\ InitScreen /\ IdleLevel
    /\ IdleOrder /\ IdleLane /\ IdleLast
NextScreen ==
    \/ \E t \in Tasks : CallPlayerOp(t)
    \/ \E t \in Tasks : LockCurrent(t)
    \/ \E t \in Tasks : LockInner(t)
    \/ \E t \in Tasks : TickSendContentUpdates(t)
    \/ \E t \in Tasks : SlotClick(t)
    \/ \E t \in Tasks : LockHeldItem(t)
    \/ \E t \in Tasks : DropSetReceivedStack(t)
    \/ \E t \in Tasks : LockAbilities(t)
    \/ \E t \in Tasks : SendAbilities(t)
    \/ \E t \in Tasks : SendCloseContainer(t)
    \/ \E t \in Tasks : OnClosed(t)
    \/ \E t \in Tasks : CloneCurrent(t)
    \/ \E t \in Tasks : LockPlayerHandler(t)
    \/ \E t \in Tasks : CopySharedSlots(t)
    \/ \E t \in Tasks : StorePlayerHandler(t)
    \/ \E t \in Tasks : CheckPlayerHandler(t)
    \/ \E t \in Tasks : LoadSyncId(t)
    \/ \E t \in Tasks : StoreSyncId(t)
    \/ \E t \in Tasks : CreateScreenHandler(t)
    \/ \E t \in Tasks : SendOpenScreen(t)
    \/ \E t \in Tasks : SetCurrent(t)
SpecScreen == InitScreenSpec /\ [][NextScreen]_vars

\* One player's ticks while its client loads, is reported loaded or is
\* marked not loaded again.
InitClientLoad == IdleConn /\ InitPlayer /\ IdleCache /\ IdleWorld /\ IdleRest
NextClientLoad == Tick \/ SetClientLoaded
SpecClientLoad == InitClientLoad /\ [][NextClientLoad]_vars

\* One call of read_level_dat on a world directory.
InitLevelSpec ==
    IdleConn /\ IdlePlayer /\ IdleCache /\ IdleWorld /\ IdleTeleport /\ InitXp
    /\ InitDecode /\ IdleRegion /\ IdleGamemode /\ InitScreen /\ InitLevel
    /\ IdleOrder /\ IdleLane /\ IdleLast
NextLevel == ReadLevelDat
SpecLevel == InitLevelSpec /\ [][NextLevel]_vars

\* One call of to_chunk_data on a chunk whose section list is in any order.
InitSectionOrder ==
    IdleConn /\ IdlePlayer /\ IdleCache /\ IdleWorld /\ IdleTeleport /\ InitXp
    /\ InitDecode /\ IdleRegion /\ IdleGamemode /\ InitScreen /\ IdleLevel
    /\ InitOrder /\ IdleLane /\ IdleLast
NextSectionOrder == DecodeSections
SpecSectionOrder == InitSectionOrder /\ [][NextSectionOrder]_vars

\* The lanes of one data word of a section.
InitLaneSpec ==
    IdleConn /\ IdlePlayer /\ IdleCache /\ IdleWorld /\ IdleTeleport /\ InitXp
    /\ InitDecode /\ IdleRegion /\ IdleGamemode /\ InitScreen /\ IdleLevel
    /\ IdleOrder /\ InitLane /\ IdleLast
NextLane == DecodeLane
SpecLane == InitLaneSpec /\ [][NextLane]_vars

\* One call of teleport_world that moves a player to another world.
InitChangeWorldSpec ==
    IdleConn /\ IdlePlayer /\ IdleCache /\ IdleWorld /\ IdleTeleport /\ InitXp
    /\ InitDecode /\ IdleRegion /\ IdleGamemode /\ InitScreen /\ IdleLevel
    /\ IdleOrder /\ IdleLane /\ InitChangeWorld /\ IdleXpTasks
NextChangeWorld ==
    \/ TeleportWorld
    \/ ChangeRoster
    \/ UnloadWatchedChunks
    \/ SendRespawn
    \/ ResumeTeleport
    \/ FinishTeleportWorld
SpecChangeWorld == InitChangeWorldSpec /\ [][NextChangeWorld]_vars


\* One Java player with chunks queued, either before its first batch or after
\* an acknowledgment of an earlier batch; the client acknowledges every batch
\* it receives, with whatever desired rate. The server ticks the player again
\* and again, and an acknowledgment that is due is eventually handled.
InitQueued ==
    /\ platform = "Java"
    /\ \E earlier \in {ChunkManager_new(DEFAULT_CHUNKS_PER_TICK)}
                     \cup {handle_acknowledge(ChunkManager_new(DEFAULT_CHUNKS_PER_TICK), r) :
                              r \in Rates10} :
          /\ chunks_per_tick = earlier.chunks_per_tick
          /\ batches_sent_since_ack = earlier.batches_sent_since_ack
    /\ chunk_queue \in UNION {[1..n -> 1..MaxChunkId] : n \in 1..MaxQueue}
    /\ wait_for_keep_alive = FALSE
    /\ keep_alive_id = 0
    /\ last_keep_alive_time = 0
    /\ client_loaded = TRUE
    /\ client_loaded_timeout = CLIENT_LOADED_TIMEOUT
    /\ now = 0
    /\ player_kick = NoKick
    /\ tick_out = <<>>
    /\ batches = 0
    /\ acked = FALSE
    /\ desired_rate10 = 0
    /\ unloaded_ticks = 0

\* The client acknowledges a batch it has received.
AckBatch == batches > 0 /\ HandleAck

InitChunkAcked == IdleConn /\ InitQueued /\ IdleCache /\ IdleWorld /\ IdleRest
NextChunkAcked == Tick \/ AckBatch
SpecChunkAcked ==
    /\ InitChunkAcked
    /\ [][NextChunkAcked]_vars
    /\ WF_vars(Tick)
    /\ WF_vars(AckBatch)


\* One player's experience under add_experience_points calls that run in
\* different tasks, one call a task.
InitXpTasksSpec ==
    IdleConn /\ IdlePlayer /\ IdleCache /\ IdleWorld /\ IdleTeleport /\ InitXp
    /\ InitDecode /\ IdleRegion /\ IdleMore
NextXpTasks ==
    \/ \E t \in Tasks : LoadLevel(t)
    \/ \E t \in Tasks : LoadPoints(t)
    \/ \E t \in Tasks : StoreLevel(t)
    \/ \E t \in Tasks : StoreProgress(t)
    \/ \E t \in Tasks : StorePoints(t)
    \/ \E t \in Tasks : NotifyExperience(t)
SpecXpTasks == InitXpTasksSpec /\ [][NextXpTasks]_vars

\* ========================================================================
\* Properties
\* ========================================================================
HasSent(type) == \E i \in 1..Len(sent) : sent[i].type = type

AllowedPhaseChanges ==
    {<<"HandShake", "Status">>, <<"HandShake", "Login">>,
     <<"Login", "Config">>, <<"Config", "Play">>}

C2_BatchWindow ==
    /\ [](platform = "Java" =>
             /\ batches <= 10
             /\ (~acked => batches <= 1))
    /\ [][(platform = "Java" /\ batches' = batches + 1) =>
             batches_sent_since_ack.tag # "Waiting"]_vars

C2_Witness ==
    /\ platform = "Java"
    /\ acked
    /\ batches = NOTCHIAN_BATCHES_WITHOUT_ACK_UNTIL_PAUSE
    /\ chunk_queue # <<>>

\* C3: full_cache holds at most 128 signatures and last_seen at most 20.
C3_CacheBounds ==
    /\ Len(full_cache) <= 128
    /\ Len(last_seen) <= 20

C3_Witness ==
    /\ cache_ops = MaxCacheOps
    /\ Len(full_cache) = MAX_CACHED_SIGNATURES
    /\ Len(last_seen) = MAX_PREVIOUS_MESSAGES

\* C4: with online mode off, no proxy and no compression, a Login Start
\* with an accepted name is answered with LoginSuccess{uuid, name} and no
\* EncryptionRequest is ever sent; Login Acknowledged then leads to
\* Configuration.
C4_OfflineLogin ==
    (~cfg.online_mode /\ ~cfg.proxy /\ ~cfg.compression) =>
        /\ ~HasSent("EncryptionRequest")
        /\ (last.kind = "LoginStart" /\ ~closed) =>
               \E i \in 1..Len(sent) :
                  sent[i] = Pkt("LoginSuccess", last.uuid, last.name, "")
        /\ last.kind = "LoginAcknowledged" => Phase = "Config"

\* C5: when packet compression is configured, every Login Success is
\* preceded on its connection by a Set Compression, the pipeline being
\* compressed by then.
C5_CompressionFirst ==
    cfg.compression =>
        \A i \in 1..Len(sent) :
           sent[i].type = "LoginSuccess" =>
              /\ compression
              /\ \E j \in 1..(i - 1) : sent[j].type = "SetCompression"

\* The names the specification accepts: 1 to 16 characters, each in 33..126.
NameOk(name) ==
    /\ Len(name) >= 1
    /\ Len(name) <= 16
    /\ \A i \in 1..Len(name) : name[i] >= 33 /\ name[i] <= 126

\* C6: is_valid_player_name accepts exactly the names of 1 to 16 characters
\* in 33..126, and for every other name handling the Login Start kicks with
\* "Invalid characters in username" and does nothing else.
C6_NameValidation ==
    [][(handled' = handled + 1 /\ last'.kind = "LoginStart") =>
          /\ is_valid_player_name(last'.name) <=> NameOk(last'.name)
          /\ ~NameOk(last'.name) =>
                /\ kicks' = Append(kicks, "Invalid characters in username")
                /\ sent' = Append(sent, Pkt("Disconnect", "", <<>>,
                                            "Invalid characters in username"))
                /\ closed'
                /\ UNCHANGED <<connection_state, panicked, gameprofile,
                               encryption, compression>>]_vars

\* C7: handle_handshake kicks exactly when the protocol version differs
\* from CURRENT_MC_PROTOCOL and the requested phase is Login.
C7_VersionCheck ==
    (last.kind = "Handshake" /\ NextStateOf(last.next) # "Invalid") =>
       ((kicks # <<>>) <=>
            (last.version # CURRENT_MC_PROTOCOL /\ NextStateOf(last.next) = "Login"))

C7_Witness ==
    /\ last.kind = "Handshake"
    /\ NextStateOf(last.next) = "Login"
    /\ last.version # CURRENT_MC_PROTOCOL
    /\ kicks # <<>>
    /\ closed

\* C8: an Encryption Response whose shared secret cannot be decrypted ends
\* in a kick; the handling task does not abort.
C8_DecryptFailureKicks ==
    (last.kind = "EncryptionResponse" /\ last.decrypt = "Err") =>
       (~panicked /\ closed /\ kicks # <<>>)

\* C9: at most one loader obtained from load_world on a world directory is
\* alive at any time.
C9_ExclusiveLock == Cardinality(AliveLoaders) <= 1

\* C10: for a Java client awaiting a keep-alive answer, the first tick at
\* least 15 s after the keep-alive was sent kicks the player with reason
\* Timeout and the text disconnect.timeout and sends no keep-alive; so a
\* player whose client never answers is eventually kicked (for keep-alives
\* sent early enough for the clock followed to reach their timeout).
TimeoutKick == [reason |-> "Timeout", text |-> "disconnect.timeout"]

C10_KeepAliveTimeout ==
    /\ [][(/\ Tick
           /\ platform = "Java"
           /\ wait_for_keep_alive
           /\ now - last_keep_alive_time >= 15) =>
              /\ player_kick' = TimeoutKick
              /\ \A i \in 1..Len(tick_out') : tick_out'[i].type # "KeepAlive"
              /\ UNCHANGED <<wait_for_keep_alive, keep_alive_id, last_keep_alive_time>>]_vars
    /\ (/\ platform = "Java"
        /\ Alive
        /\ wait_for_keep_alive
        /\ last_keep_alive_time + 15 <= MaxTime)
          ~> (player_kick = TimeoutKick \/ ~wait_for_keep_alive)

C10_Witness ==
    /\ platform = "Java"
    /\ player_kick = TimeoutKick
    /\ wait_for_keep_alive
    /\ now - last_keep_alive_time >= 15

\* C11: every non-cancelled request_teleport uses the id previous + 1,
\* wrapping around at the signed 32-bit limit without failing, stores
\* (id, position) in awaiting_teleport before the PlayerPosition packet is
\* sent, and sends that id and position with zero velocity.
C11_TeleportId ==
    \A t \in Tasks :
       /\ calls[t].pc # "panicked"
       /\ calls[t].pc \in {"fetched", "moved", "stored", "done"} =>
             calls[t].id = IF calls[t].i = 2147483647
                           THEN (-2147483647) - 1
                           ELSE calls[t].i + 1
       /\ calls[t].pc = "stored" => awaiting_teleport.some
       /\ calls[t].pc = "done" =>
             \E k \in 1..Len(tp_sent) :
                /\ tp_sent[k].id = calls[t].id
                /\ tp_sent[k].pos = calls[t].to
                /\ tp_sent[k].delta = <<0, 0, 0>>

\* C12: after any sequence of add_experience_points, add_experience_levels,
\* set_experience_level (keep_progress true or false) and
\* set_experience_points, experience_points lies in
\* [0, points_in_level(experience_level)].
C12_PointsInRange ==
    /\ 0 <= experience_points
    /\ experience_points <= points_in_level(experience_level)

XpTotal == points_to_level(experience_level) + experience_points

\* C13: add_experience_points(added), added >= 0, leaves the total
\* points_to_level(level) + points at the old total + added, and writing
\* XpTotal and reading it back restores the same (level, points).
C13_TotalPreserved ==
    /\ [][(xp_ops' = xp_ops + 1 /\ xp_last'.op = "add_points") =>
             XpTotal' = XpTotal + xp_last'.arg]_vars
    /\ [][(xp_ops' = xp_ops + 1 /\ xp_last'.op = "nbt") =>
             /\ experience_level' = experience_level
             /\ experience_points' = experience_points]_vars

\* C14: a section without block data (no block_states, or block_states
\* without a data array) writes no block and advances the write index by
\* exactly 4096.
C14_EmptySectionSkips ==
    [][(sections_read' = sections_read + 1
        /\ section'.kind \in {"no_states", "no_data"}) =>
          /\ block_index' = block_index + 4096
          /\ last_writes' = <<>>
          /\ section_writes' = 0]_vars

\* C15: the n-th lane of a section's stream is written to the dense
\* position y*256 + z*16 + x equal to the running write index, every cell at
\* most once, at most 4096 cells per section and only inside the section's
\* own 4096-cell slab; lanes left over in the last word are not written.
C15_SectionWrites ==
    /\ [](/\ section_writes <= 4096
          /\ \A k \in 1..Len(last_writes) :
                /\ last_writes[k].pos = last_writes[k].index
                /\ last_writes[k].pos \div 4096 = section.start \div 4096
                /\ k > 1 => last_writes[k].index = last_writes[k - 1].index + 1)
    /\ [][word_no' = word_no + 1 =>
             /\ last_writes' # <<>>
             /\ last_writes'[1].index = block_index
             /\ block_index' = block_index + Len(last_writes')]_vars

C15_Witness ==
    /\ section.kind = "data"
    /\ section.lanes = 12
    /\ Len(last_writes) = 4
    /\ section_writes = 4096
    /\ block_index % 4096 = 0

\* Smallest k with 2^k >= p.
CeilLog2(p) == CHOOSE k \in 0..8 : 2^k >= p /\ (k = 0 \/ 2^(k - 1) < p)

\* C16: the lane width is max(4, ceil(log2 p)) for every palette size
\* p >= 1, and a word holds 64 div width blocks.
C16_LaneWidth ==
    section.kind = "data" =>
       /\ section.bits = (IF CeilLog2(section.palette_len) > 4
                          THEN CeilLog2(section.palette_len) ELSE 4)
       /\ section.lanes = 64 \div section.bits

C16_Witness ==
    /\ decode_pc = "words"
    /\ section.palette_len = 32
    /\ section.bits = 5
    /\ section.lanes = 12

\* C17: read_chunk uses the region (cx >> 5, cz >> 5) and the local
\* coordinates lx = cx - 32*(cx >> 5), lz = cz - 32*(cz >> 5), both in
\* 0..31; the entry's byte index (lx + 32*lz)*4 lies in 0..4092, and the
\* region with the index determines the chunk, so two chunks of one region
\* never share an entry.
C17_RegionEntry ==
    chunk_read.result # "none" =>
       LET rx == chunk_read.region[1]
           rz == chunk_read.region[2]
           lx == chunk_read.chunk[1]
           lz == chunk_read.chunk[2]
           e  == chunk_read.table_entry
       IN  /\ 32 * rx <= chunk_at[1] /\ chunk_at[1] < 32 * rx + 32
           /\ 32 * rz <= chunk_at[2] /\ chunk_at[2] < 32 * rz + 32
           /\ lx = chunk_at[1] - 32 * rx /\ lx \in 0..31
           /\ lz = chunk_at[2] - 32 * rz /\ lz \in 0..31
           /\ e = (lx + 32 * lz) * 4 /\ e \in 0..4092
           /\ chunk_at = <<(32 * rx) + ((e \div 4) % 32), (32 * rz) + ((e \div 4) \div 32)>>

C17_Witness ==
    /\ chunk_at = <<-33, -1>>
    /\ chunk_read.region = <<-2, -1>>
    /\ chunk_read.table_entry = (31 + 32 * 31) * 4
    /\ chunk_read.stage >= 1

\* C18: a location entry with offset 0 and sector count 0 makes read_chunk
\* return NotFound without reading further and without a panic.
C18_BlankEntry ==
    (/\ chunk_read.result # "none"
     /\ region_file.length >= 8192
     /\ region_file.offset = 0
     /\ region_file.count = 0)
    => /\ chunk_read.result = "NotFound"
       /\ chunk_read.reads = <<"location_table", "timestamp_table">>

C18_Witness ==
    /\ chunk_read.result = "NotFound"
    /\ region_file.length = 12288
    /\ region_file.offset = 0
    /\ region_file.count = 0

\* C19: indexed_for(recipient) returns one entry per signature of
\* last_seen, in order: (id = i + 1, no signature) when the signature is
\* found at position i of the recipient's full_cache, (id = 0, the
\* signature) otherwise; the output depends on the two caches alone.
C19_IndexedFor ==
    indexed.called =>
       /\ Len(indexed.out) = Len(indexed.seen)
       /\ \A k \in 1..Len(indexed.seen) :
             LET found == {i \in 0..(Len(indexed.recipient) - 1) :
                              indexed.recipient[i + 1] = indexed.seen[k]}
             IN  /\ found # {} =>
                       /\ indexed.out[k].id - 1 \in found
                       /\ \A i \in found : indexed.out[k].id - 1 <= i
                       /\ indexed.out[k].signature = 0
                 /\ found = {} =>
                       /\ indexed.out[k].id = 0
                       /\ indexed.out[k].signature = indexed.seen[k]
       /\ \A seen \in {indexed.seen}, cache \in {indexed.recipient} :
             indexed_for(seen, cache) = indexed.out

C19_Witness ==
    /\ indexed.called
    /\ \E k \in 1..Len(indexed.out) : indexed.out[k].id >= 2
    /\ \E k \in 1..Len(indexed.out) :
          indexed.out[k].id = 0 /\ indexed.out[k].signature = indexed.seen[k]

\* The chunks carried by the packets of a tick, in the order sent.
ChunksSent(out) ==
    LET data == SelectSeq(out, LAMBDA p : p.type \in {"ChunkData", "LevelChunk"})
    IN  [i \in 1..Len(data) |-> data[i].arg]

DrainsOldest ==
    [][(Tick /\ (platform = "Bedrock" \/ batches' = batches + 1)) =>
          LET n == IF Len(chunk_queue) < chunks_per_tick
                   THEN Len(chunk_queue) ELSE chunks_per_tick
          IN  /\ ChunksSent(tick_out') = SubSeq(chunk_queue, 1, n)
              /\ chunk_queue' = SubSeq(chunk_queue, n + 1, Len(chunk_queue))]_vars

\* The ceiling of a rate given in tenths.
Ceil10(rate10) == -((-rate10) \div 10)

\* C20 as stated: next_chunk removes and returns exactly
\* min(queue length, chunks_per_tick) chunks, the oldest in push order, and
\* leaves the rest queued in order; chunks_per_tick is 16 until the first
\* acknowledgment and the ceiling of the latest acknowledgment's desired
\* rate afterwards.
C20_Original ==
    /\ DrainsOldest
    /\ [](~acked => chunks_per_tick = 16)
    /\ [](acked => chunks_per_tick = Ceil10(desired_rate10))

\* C20, amended: as above, with chunks_per_tick after an acknowledgment the
\* ceiling of its desired rate, or 0 when that ceiling is negative (the
\* conversion to an unsigned count saturates).
C20_DrainsOldest ==
    /\ DrainsOldest
    /\ [](~acked => chunks_per_tick = 16)
    /\ [](acked => chunks_per_tick = (IF Ceil10(desired_rate10) < 0
                                      THEN 0 ELSE Ceil10(desired_rate10)))

C20_Witness ==
    /\ acked
    /\ desired_rate10 = 15
    /\ chunks_per_tick = 2
    /\ Len(chunk_queue) = 1
    /\ \E i \in 1..Len(tick_out) : tick_out[i].type = "ChunkBatchEnd" /\ tick_out[i].arg = 2

\* C21: set_gamemode called with the player's current gamemode returns to
\* its caller, leaving gamemode, abilities and the invulnerable flag as they
\* were and sending nothing.
C21_SameModeRefused ==
    (gm_last.called /\ gm_last.mode = gm_last.before.gamemode)
        => /\ gm_last.outcome = "returned"
           /\ gamemode = gm_last.before.gamemode
           /\ abilities = gm_last.before.abilities
           /\ invulnerable = gm_last.before.invulnerable
           /\ gm_out = <<>>

\* C22: after a set_gamemode that was not cancelled, the abilities are those
\* of the gamemode that took effect, whatever they were before, and the
\* entity's invulnerable flag equals abilities.invulnerable.
C22_AbilitiesForMode ==
    (gm_last.called /\ gm_last.outcome = "returned" /\ ~gm_last.cancelled)
        => /\ gamemode = gm_last.new_gamemode
           /\ gamemode = "Creative" =>
                 abilities.invulnerable /\ abilities.allow_flying /\ abilities.creative
           /\ gamemode = "Spectator" =>
                 /\ abilities.flying /\ abilities.allow_flying /\ abilities.invulnerable
                 /\ ~abilities.creative
           /\ gamemode \notin {"Creative", "Spectator"} =>
                 /\ ~abilities.flying /\ ~abilities.allow_flying
                 /\ ~abilities.creative /\ ~abilities.invulnerable
           /\ invulnerable = abilities.invulnerable

C22_Witness ==
    /\ gm_last.called /\ gm_last.outcome = "returned" /\ ~gm_last.cancelled
    /\ gm_last.mode = "Creative" /\ gamemode = "Creative"
    /\ gm_last.before.abilities.flying /\ abilities.flying
    /\ ~gm_last.before.abilities.creative
    /\ Len(gm_out) = 3

\* C23: a player has exactly one current screen handler at any moment, the
\* player's own at first; when on_handled_screen_closed (alone or at the end
\* of close_handled_screen) returns, the current handler is the player's own;
\* and an open_handled_screen that found another handler current has sent
\* CloseContainer before it sends COpenScreen for the new handler.
C23_CurrentHandler ==
    /\ [](current_screen_handler \in 0..handlers_made)
    /\ [][\A t \in Tasks :
            /\ (screen_tasks[t].fn = "on_handled_screen_closed"
                /\ screen_tasks[t].at = "store" /\ screen_tasks'[t].at # "store")
                  => current_screen_handler' = PLAYER_HANDLER
            /\ (screen_tasks[t].at = "open" /\ screen_tasks'[t].at = "set")
                  => /\ screen_out' = Append(screen_out,
                                         COpenScreen(handler_sync[screen_tasks[t].new]))
                     /\ screen_tasks[t].saw # PLAYER_HANDLER =>
                           /\ screen_tasks[t].closed
                           /\ \E i \in 1..Len(screen_out) :
                                 screen_out[i].type = "CloseContainer"]_vars

C23_Witness ==
    /\ Len(screen_out) = 3
    /\ screen_out[1] = COpenScreen(1)
    /\ screen_out[2] = CCloseContainer(1)
    /\ screen_out[3] = COpenScreen(2)
    /\ current_screen_handler = 2
    /\ \A t \in Tasks : screen_tasks[t].at = "idle"

\* The lock a task is waiting for is held by this task (0: not waiting, or
\* the lock is free).
WaitsFor(t) ==
    LET at == screen_tasks[t].at
    IN  CASE at \in {"current", "clone", "store", "set"} ->
                 field_lock["current_screen_handler"]
          [] at = "inner" -> handler_lock[current_screen_handler]
          [] at = "held" -> field_lock["held_item"]
          [] at = "abilities" -> field_lock["abilities"]
          [] at = "player" -> handler_lock[PLAYER_HANDLER]
          [] at = "copy" -> handler_lock[screen_tasks[t].local]
          [] OTHER -> 0

Deadlocked == \E S \in (SUBSET Tasks) \ {{}} : \A t \in S : WaitsFor(t) \in S

HoldsHandler(t) == \E h \in Handlers : handler_lock[h] = t

\* The task is at an awaited send to the client.
AwaitsSend(t) ==
    \/ At(t, "send_abilities_update", "send")
    \/ At(t, "close_handled_screen", "body")
    \/ At(t, "open_handled_screen", "open")

LockOrderKept ==
    \A t \in Tasks :
       /\ screen_tasks[t].at = "current" => ~HoldsHandler(t)
       /\ screen_tasks[t].at = "held" =>
             ~HoldsHandler(t) /\ field_lock["current_screen_handler"] # t

AbilitiesIsLeaf ==
    \A t \in Tasks :
       field_lock["abilities"] = t =>
          /\ ~AwaitsSend(t)
          /\ ~HoldsHandler(t)
          /\ field_lock["current_screen_handler"] # t
          /\ field_lock["held_item"] # t

\* C24: two locks held at once are taken in the documented order, nothing
\* is locked and no send is awaited while abilities is held, and no
\* interleaving of the operations deadlocks.
C24_LockDiscipline == LockOrderKept /\ AbilitiesIsLeaf /\ ~Deadlocked

\* C25: while the client has not reported loading, has_client_loaded() is
\* false for the 59 ticks after set_client_loaded(false) (or creation) and
\* true from the 60th tick on; the timeout never goes below 0 and does not
\* run down while client_loaded is true.
C25_ClientLoadTimeout ==
    /\ [](~client_loaded => (has_client_loaded <=> unloaded_ticks >= 60))
    /\ [](client_loaded_timeout >= 0)
    /\ [][client_loaded => client_loaded_timeout' >= client_loaded_timeout]_vars

C25_Witness ==
    /\ ~client_loaded
    /\ unloaded_ticks = 60
    /\ client_loaded_timeout = 0
    /\ has_client_loaded

\* C26: when read_level_dat succeeds, every field of the WorldInfo equals
\* the field of the document's Data compound it is named after: seed is
\* WorldGenSettings.seed, spawn is (SpawnX, SpawnY, SpawnZ), border_center is
\* (BorderCenterX, BorderCenterZ), day_time is DayTime, time is Time.
C26_WorldInfoFields ==
    (level_read.called /\ level_read.result.ok) =>
        LET info == level_read.result.info
            d == level_file.doc.Data
        IN  /\ info.border_center = <<d.BorderCenterX, d.BorderCenterZ>>
            /\ info.border_damage_per_block = d.BorderDamagePerBlock
            /\ info.border_size = d.BorderSize
            /\ info.border_safe_zone = d.BorderSafeZone
            /\ info.border_size_lerp_target = d.BorderSizeLerpTarget
            /\ info.border_warning_blocks = d.BorderWarningBlocks
            /\ info.border_warning_time = d.BorderWarningTime
            /\ info.clear_weather_time = d.clearWeatherTime
            /\ info.day_time = d.DayTime
            /\ info.seed = d.WorldGenSettings.seed
            /\ info.raining = d.raining
            /\ info.rain_time = d.rainTime
            /\ info.spawn = <<d.SpawnX, d.SpawnY, d.SpawnZ>>
            /\ info.thundering = d.thundering
            /\ info.thunder_time = d.thunderTime
            /\ info.time = d.Time
            /\ DOMAIN info = {"border_center", "border_damage_per_block", "border_size",
                              "border_safe_zone", "border_size_lerp_target",
                              "border_warning_blocks", "border_warning_time",
                              "clear_weather_time", "day_time", "seed", "raining",
                              "rain_time", "spawn", "thundering", "thunder_time", "time"}

C26_Witness ==
    /\ level_read.called /\ level_read.result.ok
    /\ level_read.result.info.day_time = -7
    /\ level_read.result.info.time # -7
    /\ level_read.result.info.raining /\ ~level_read.result.info.thundering

\* C27: in online mode, an Encryption Response whose authentication is
\* attempted and fails gets the connection kicked, and no Login Success
\* follows the Disconnect.
C27_NoLoginSuccessAfterAuthFailure ==
    (/\ last.kind = "EncryptionResponse" /\ cfg.online_mode
     /\ last.decrypt = "Ok" /\ last.enc = "Ok" /\ last.auth = "Err"
     /\ ~panicked)
       => /\ closed /\ kicks # <<>>
          /\ \A i, j \in 1..Len(sent) :
                (i < j /\ sent[i].type = "Disconnect") => sent[j].type # "LoginSuccess"

\* C28: when a subscriber cancels the PlayerTeleportEvent of a same-world
\* teleport, dispatched by teleport or by request_teleport, no later step of
\* that teleport changes teleport_id_count, awaiting_teleport, position or
\* rotation, sends a PlayerPosition or broadcasts a CEntityPositionSync.
C28_CancelledTeleportHasNoEffect ==
    [][\A t \in Tasks :
          (\/ calls'[t].pc = "cancelled" /\ calls'[t] # calls[t]
           \/ teleports'[t].pc = "cancelled" /\ teleports'[t] # teleports[t]
           \/ /\ calls[t].pc = "cancelled" /\ teleports[t].pc = "requested"
              /\ teleports'[t] # teleports[t])
             => UNCHANGED <<teleport_id_count, awaiting_teleport, position,
                            rotation, tp_sent, tp_broadcast>>]_vars

\* C29: when every section of the list is decoded, the section with the
\* i-th smallest Y fills the dense cells [i*4096, (i+1)*4096), whatever the
\* order of the list.
C29_AscendingY ==
    (/\ slabs # NotDecoded
     /\ \A i \in 1..Len(chunk_sections) : chunk_sections[i].kind = "data")
       => \A k \in 1..Len(slabs) :
             LET rank == Cardinality({i \in 1..Len(chunk_sections) :
                                         chunk_sections[i].y < slabs[k].y})
             IN  /\ slabs[k].from = rank * 4096
                 /\ slabs[k].to = (rank + 1) * 4096

\* C30: the k-th block decoded from a data word, negative or not, is the
\* palette entry at the k-th w-bit lane of the word's unsigned bit pattern,
\* lanes counted from the least significant; the word with nibbles
\* [1,0,0,2,...] gives palette[1], palette[0], palette[0], palette[2].
C30_LaneOfUnsignedWord ==
    LET len == Len(lane_palette)
        w == IF len <= 16 THEN 4 ELSE IF len <= 32 THEN 5
             ELSE IF len <= 64 THEN 6 ELSE 7
        lane(k) == IF w = 4
                   THEN lane_word[4*k] + 2 * lane_word[4*k + 1]
                        + 4 * lane_word[4*k + 2] + 8 * lane_word[4*k + 3]
                   ELSE IF w = 5
                   THEN lane_word[5*k] + 2 * lane_word[5*k + 1]
                        + 4 * lane_word[5*k + 2] + 8 * lane_word[5*k + 3]
                        + 16 * lane_word[5*k + 4]
                   ELSE IF w = 6
                   THEN lane_word[6*k] + 2 * lane_word[6*k + 1]
                        + 4 * lane_word[6*k + 2] + 8 * lane_word[6*k + 3]
                        + 16 * lane_word[6*k + 4] + 32 * lane_word[6*k + 5]
                   ELSE lane_word[7*k] + 2 * lane_word[7*k + 1]
                        + 4 * lane_word[7*k + 2] + 8 * lane_word[7*k + 3]
                        + 16 * lane_word[7*k + 4] + 32 * lane_word[7*k + 5]
                        + 64 * lane_word[7*k + 6]
    IN  /\ Len(lane_decoded) = lane_i
        /\ lane_i <= 64 \div w
        /\ \A k \in 0..(lane_i - 1) :
              lane_decoded[k + 1] = lane_palette[lane(k) + 1]
        /\ (/\ lane_word = [b \in 0..63 |-> IF b \in {0, 13} THEN 1 ELSE 0]
            /\ len = 16 /\ lane_i >= 4)
              => SubSeq(lane_decoded, 1, 4)
                    = <<lane_palette[2], lane_palette[1], lane_palette[1],
                        lane_palette[3]>>

\* A negative word (all bits set) has given all sixteen 4-bit lanes, each
\* the last entry of a 16-entry palette.
C30_Witness ==
    /\ lane_word[63] = 1
    /\ ~lane_panicked
    /\ Len(lane_palette) = 16
    /\ lane_i = 16
    /\ \A k \in 1..16 : lane_decoded[k] = lane_palette[16]

\* C31: add_seen_signature(sig) leaves sig last in last_seen and first in
\* full_cache; a last_seen of 20 entries loses its first entry, a full_cache
\* of 128 entries loses its last entry, and the other entries of both lists
\* keep their order.
C31_AddSeenSignature ==
    [][AddSeenSignature =>
          LET sig == full_cache'[1]
              kept_seen == IF Len(last_seen) = 20 THEN Tail(last_seen) ELSE last_seen
              kept_cache == IF Len(full_cache) = 128
                            THEN SubSeq(full_cache, 1, 127) ELSE full_cache
          IN  /\ last_seen' = Append(kept_seen, sig)
              /\ full_cache' = <<sig>> \o kept_cache]_vars

\* A signature the cache did not hold was added to a full cache: the oldest
\* entries of both lists are gone.
C31_Witness ==
    /\ Len(full_cache) = 128 /\ Len(last_seen) = 20
    /\ full_cache[1] = 129 /\ full_cache[2] = 128 /\ full_cache[128] = 2
    /\ last_seen[1] = 110 /\ last_seen[19] = 128 /\ last_seen[20] = 129

\* C32: a tick sends a keep-alive only to a Java client with no keep-alive
\* awaiting its answer, and then sends exactly one, sets wait_for_keep_alive,
\* sets last_keep_alive_time to the time of the tick and stores in
\* keep_alive_id the id the packet carries.
C32_OneKeepAliveOutstanding ==
    [][(/\ Tick
        /\ \E i \in 1..Len(tick_out') : tick_out'[i].type = "KeepAlive") =>
           /\ platform = "Java"
           /\ ~wait_for_keep_alive
           /\ wait_for_keep_alive'
           /\ last_keep_alive_time' = now
           /\ Cardinality({i \in 1..Len(tick_out') :
                              tick_out'[i].type = "KeepAlive"}) = 1
           /\ \A i \in 1..Len(tick_out') :
                 tick_out'[i].type = "KeepAlive" => tick_out'[i].arg = keep_alive_id']_vars

\* A keep-alive with a non-zero id has just been sent and awaits its answer.
C32_Witness ==
    /\ platform = "Java"
    /\ wait_for_keep_alive
    /\ last_keep_alive_time = now
    /\ keep_alive_id > 0
    /\ \E i \in 1..Len(tick_out) :
          tick_out[i] = [type |-> "KeepAlive", arg |-> keep_alive_id]

\* C33: once teleport_world has sent Respawn, the player is off the old
\* world's roster, an UnloadChunk for every chunk of the cylinder the player
\* watched was sent before the Respawn, watched_section is ((0,0), radius 1),
\* and a PlayerPosition is sent only after the Respawn.
C33_UnloadBeforeRespawn ==
    \A r \in 1..Len(tw_sent) :
       tw_sent[r].packet.type = "Respawn" =>
          /\ "uuid" \notin old_roster
          /\ \A c \in tw_watched :
                \E i \in 1..(r - 1) :
                   tw_sent[i].packet = [type |-> "UnloadChunk", x |-> c[1], z |-> c[2]]
          /\ self_player.watched_section = [center |-> <<0, 0>>, radius |-> 1]
          /\ \A j \in 1..Len(tw_sent) :
                tw_sent[j].packet.type = "PlayerPosition" => j > r

\* What of C33 does hold: the order of the steps, and an UnloadChunk for
\* every watched chunk that is left without a watcher.
RespawnAfterUnload ==
    \A r \in 1..Len(tw_sent) :
       tw_sent[r].packet.type = "Respawn" =>
          /\ "uuid" \notin old_roster
          /\ \A c \in tw_watched \ DOMAIN chunk_watchers :
                \E i \in 1..(r - 1) :
                   tw_sent[i].packet = [type |-> "UnloadChunk", x |-> c[1], z |-> c[2]]
          /\ self_player.watched_section = [center |-> <<0, 0>>, radius |-> 1]
          /\ \A j \in 1..Len(tw_sent) :
                tw_sent[j].packet.type = "PlayerPosition" => j > r

\* C40: after a non-cancelled teleport_world that sent a PlayerPosition, the
\* Player registered under the uuid in the new world's roster belongs to the
\* new world and its awaiting_teleport is the (id, position) of that packet.
C40_RosterPlayerAwaitsTeleport ==
    (tw_pc = "done") =>
        \A i \in 1..Len(tw_sent) :
           tw_sent[i].packet.type = "PlayerPosition" =>
              /\ new_roster.some
              /\ new_roster.player.world = "new_world"
              /\ new_roster.player.awaiting_teleport =
                    [some |-> TRUE, id |-> tw_sent[i].packet.id,
                     pos |-> tw_sent[i].packet.pos]

\* What does hold: the pending teleport is on the Player the call ran on,
\* which still belongs to the old world.
SelfAwaitsTeleport ==
    (tw_pc = "done") =>
        \A i \in 1..Len(tw_sent) :
           tw_sent[i].packet.type = "PlayerPosition" =>
              /\ self_player.world = "old_world"
              /\ self_player.awaiting_teleport =
                    [some |-> TRUE, id |-> tw_sent[i].packet.id,
                     pos |-> tw_sent[i].packet.pos]

\* C34: every lane of a data word is an index inside the section's palette,
\* whatever the palette size and the word, so decoding never indexes outside
\* the palette.
C34_LaneWithinPalette ==
    /\ ~lane_panicked
    /\ \A k \in 1..Len(lane_decoded) :
          \E j \in 1..Len(lane_palette) : lane_decoded[k] = lane_palette[j]

\* C35: read_chunk ends with Ok or with an error value, never with a panic,
\* whatever the location-table entry and the chunk header hold.
C35_ReadChunkNeverPanics ==
    chunk_read.result \in
        {"none", "Ok", "NotFound", "IoError", "CompressionError",
         "ChunkNotGenerated", "DeserializationError", "OutdatedWorldFormat"}


\* C36: with every batch acknowledged and the player ticked fairly, a queue
\* that holds chunks is eventually drained, whatever rates the
\* acknowledgments carry.
C36_QueuedChunksEventuallySent == (chunk_queue # <<>>) ~> (chunk_queue = <<>>)

\* As long as the last acknowledgment asked for at least a fraction of a
\* chunk per tick, the next batch takes chunks from the queue.
PositiveRateDrains ==
    [][Tick /\ acked /\ desired_rate10 > 0 /\ can_send_chunk(ChunkManager)
         => Len(chunk_queue') < Len(chunk_queue)]_vars


\* C37: once no request_teleport call is in flight, awaiting_teleport holds
\* the id and the position of the PlayerPosition packet that was sent last.
C37_AwaitingIsLastSent ==
    (/\ \A t \in Tasks : calls[t].pc \in {"idle", "cancelled", "done", "panicked"}
     /\ tp_sent # <<>>)
    => awaiting_teleport =
           SomeTeleport(tp_sent[Len(tp_sent)].id, tp_sent[Len(tp_sent)].pos)

\* What does hold: awaiting_teleport is the pair of one of the packets sent
\* or about to be sent.
AwaitingIsSomeRequest ==
    awaiting_teleport.some =>
        \/ \E i \in 1..Len(tp_sent) :
              awaiting_teleport = SomeTeleport(tp_sent[i].id, tp_sent[i].pos)
        \/ \E t \in Tasks :
              /\ calls[t].pc = "stored"
              /\ awaiting_teleport = SomeTeleport(calls[t].id, calls[t].to)


\* C38: once the add_experience_points calls of all tasks have finished, the
\* total experience has grown by the sum of the amounts added (it started at
\* 0), and experience_level and experience_points are the pair computed from
\* that one total.
C38_ConcurrentAdditionsSum ==
    (\A t \in Tasks : xp_tasks[t].pc = "done") =>
        LET RECURSIVE sum_added(_)
            sum_added(n) == IF n = 0 THEN 0 ELSE sum_added(n - 1) + xp_tasks[n].added
            sum == sum_added(Cardinality(Tasks))
        IN  /\ points_to_level(experience_level) + experience_points = sum
            /\ [level |-> experience_level, points |-> experience_points]
                   = total_to_level_and_points(sum)

\* What does hold: each value stored is one that some call computed.
StoredByOneCall ==
    /\ experience_level \in {0} \cup {xp_tasks[t].new_level : t \in Tasks}
    /\ experience_points \in {0} \cup {xp_tasks[t].new_points : t \in Tasks}


\* C39: full_cache never holds the same signature at two places.
C39_FullCacheHasNoDuplicates ==
    \A i, j \in 1..Len(full_cache) :
        full_cache[i] = full_cache[j] => i = j


\* What does hold: cache_signatures adds no duplicate to a cache that has
\* none, even when its list repeats a signature.
CacheSignaturesAddsNoDuplicate ==
    [][CacheSignatures /\ C39_FullCacheHasNoDuplicates
           => C39_FullCacheHasNoDuplicates']_vars

====
